---- MODULE Spec2Model ----
(***************************************************************************)
(* G2Basic: a line-numbered BASIC interpreter (src/src/g2basic.c).         *)
(*                                                                         *)
(* The model follows the C source function by function.  A C string is a   *)
(* sequence of one-character strings; a `const char*` into it is the       *)
(* suffix that starts at the pointer, so `*p == '\0'` is `p = <<>>`.       *)
(* A linked list is the sequence of its nodes from the head; a pointer to  *)
(* a node is the node's index in that sequence and 0 is the null pointer.  *)
(* A double is an integer or the not-a-number value: the texts the model   *)
(* submits hold integer literals only and divide exactly.  calloc is       *)
(* taken to succeed.                                                       *)
(***************************************************************************)
EXTENDS Integers, Sequences, FiniteSets, TLC

(***************************************************************************)
(* <ctype.h> and <stdlib.h> as the source uses them                        *)
(***************************************************************************)
NUL == ""

UpperLetters == <<"A","B","C","D","E","F","G","H","I","J","K","L","M",
                  "N","O","P","Q","R","S","T","U","V","W","X","Y","Z">>

LowerLetters == <<"a","b","c","d","e","f","g","h","i","j","k","l","m",
                  "n","o","p","q","r","s","t","u","v","w","x","y","z">>

DigitChars == <<"0","1","2","3","4","5","6","7","8","9">>

Range(f) == {f[i] : i \in DOMAIN f}

isspace(c) == c \in {" ", "\t", "\n", "\f", "\r"}

isdigit(c) == c \in Range(DigitChars)

isalpha(c) == c \in Range(UpperLetters) \cup Range(LowerLetters)

tolower(c) ==
    IF c \in Range(UpperLetters)
    THEN LowerLetters[CHOOSE i \in 1..26 : UpperLetters[i] = c]
    ELSE c

DigitValue(c) == (CHOOSE i \in 1..10 : DigitChars[i] = c) - 1

\* *p for a pointer p into a string
Deref(p) == IF p = <<>> THEN NUL ELSE Head(p)

\* p[i], for i within the string or at its terminator
At(p, i) == IF i < Len(p) THEN p[i + 1] ELSE NUL

\* p + n
Advance(p, n) == SubSeq(p, n + 1, Len(p))

\* the C string as one TLA+ string (what %s prints)
RECURSIVE CStr(_)
CStr(p) == IF p = <<>> THEN "" ELSE Head(p) \o CStr(Tail(p))

\* strtol(p, &endptr, 10) on a string that starts with a digit: the value of
\* the leading digits and the pointer past them
RECURSIVE strtol_from(_, _)
strtol_from(p, acc) ==
    IF isdigit(Deref(p))
    THEN strtol_from(Tail(p), acc * 10 + DigitValue(Head(p)))
    ELSE [value |-> acc, endptr |-> p]

strtol(p) == strtol_from(p, 0)

(***************************************************************************)
(* double: an integer, an infinity or NAN                                  *)
(***************************************************************************)
Num(n) == [nan |-> FALSE, n |-> n]

NAN == [nan |-> TRUE, n |-> 0]

\* HUGE_VAL for sign 1 and -HUGE_VAL for sign -1
INF(sign) == [nan |-> FALSE, n |-> sign, inf |-> TRUE]

isnan(v) == v.nan

isinf(v) == "inf" \in DOMAIN v

\* IEEE arithmetic: an infinity absorbs every finite operand, and the
\* difference of equal infinities and zero times an infinity are NAN
DAdd(a, b) ==
    IF a.nan \/ b.nan THEN NAN
    ELSE IF isinf(a) THEN (IF isinf(b) /\ b.n # a.n THEN NAN ELSE a)
    ELSE IF isinf(b) THEN b
    ELSE Num(a.n + b.n)

DSub(a, b) ==
    IF a.nan \/ b.nan THEN NAN
    ELSE IF isinf(a) THEN (IF isinf(b) /\ b.n = a.n THEN NAN ELSE a)
    ELSE IF isinf(b) THEN INF(0 - b.n)
    ELSE Num(a.n - b.n)

DMul(a, b) ==
    IF a.nan \/ b.nan THEN NAN
    ELSE IF isinf(a) \/ isinf(b)
    THEN (IF a.n = 0 \/ b.n = 0 THEN NAN
          ELSE INF(IF (a.n < 0) = (b.n < 0) THEN 1 ELSE -1))
    ELSE Num(a.n * b.n)

DNeg(a) ==
    IF a.nan THEN NAN
    ELSE IF isinf(a) THEN INF(0 - a.n)
    ELSE Num(0 - a.n)

Abs(n) == IF n < 0 THEN 0 - n ELSE n

\* a / b for b # 0.0; the quotient of the modelled texts is exact, and TLC
\* stops on a text that would need a fraction
DDiv(a, b) ==
    CASE a.nan \/ b.nan -> NAN
      [] ~a.nan /\ ~b.nan /\ isinf(a) /\ isinf(b) -> NAN
      [] ~a.nan /\ ~b.nan /\ isinf(a) /\ ~isinf(b) ->
            INF(IF (a.n < 0) = (b.n < 0) THEN 1 ELSE -1)
      [] ~a.nan /\ ~b.nan /\ ~isinf(a) /\ isinf(b) -> Num(0)
      [] ~a.nan /\ ~b.nan /\ ~isinf(a) /\ ~isinf(b) /\ a.n % b.n = 0 ->
            Num((IF (a.n < 0) = (b.n < 0) THEN 1 ELSE -1) * (Abs(a.n) \div Abs(b.n)))

\* the comparisons of IEEE doubles: every ordered comparison with NAN is
\* false, -HUGE_VAL is below and HUGE_VAL above every finite double
DLt(a, b) ==
    /\ ~a.nan /\ ~b.nan
    /\ IF isinf(a) THEN a.n < 0 /\ b # a
       ELSE IF isinf(b) THEN b.n > 0
       ELSE a.n < b.n

DLe(a, b) == ~a.nan /\ ~b.nan /\ (a = b \/ DLt(a, b))

DGt(a, b) == DLt(b, a)

DGe(a, b) == DLe(b, a)

DEq(a, b) == ~a.nan /\ ~b.nan /\ a = b

\* printf("%.*g", 15, v) for an integer of at most 15 digits, an infinity
\* or NAN
FormatG(v) ==
    IF v.nan THEN "nan"
    ELSE IF isinf(v) THEN (IF v.n < 0 THEN "-inf" ELSE "inf")
    ELSE ToString(v.n)

(***************************************************************************)
(* Lexical helpers                                                         *)
(***************************************************************************)
RECURSIVE skip_ws(_)
skip_ws(p) == IF p # <<>> /\ isspace(Head(p)) THEN skip_ws(Tail(p)) ELSE p

\* the loop of g2basic_parse and run_program: while (isspace(*p)) p++
skip_isspace(p) == skip_ws(p)

skip_word(p, word) == Advance(p, Len(word))

\* the number of leading characters of p that equal command's, case folded
RECURSIVE match_len(_, _, _)
match_len(p, command, i) ==
    IF i < Len(command) /\ tolower(At(p, i)) = tolower(command[i + 1])
    THEN match_len(p, command, i + 1)
    ELSE i

\* a faulty test, which accepts the word as a prefix of a longer one
is_keyword_prefix(input, command) ==
    match_len(skip_ws(input), command, 0) = Len(command)

is_keyword(input, command) ==
    LET p == skip_ws(input)
        cmd_len == Len(command)
        i == match_len(p, command, 0)
    IN  i = cmd_len /\ (isspace(At(p, cmd_len)) \/ At(p, cmd_len) = NUL)

is_alpha_or_underscore(c) == isalpha(c) \/ c = "_"

is_alnum_or_underscore(c) == isalpha(c) \/ isdigit(c) \/ c = "_"

RECURSIVE identifier_end(_)
identifier_end(endp) ==
    IF is_alnum_or_underscore(Deref(endp)) THEN identifier_end(Tail(endp)) ELSE endp

\* the identifier at p (a string) and the pointer past it; callers test
\* is_alpha_or_underscore(*p) first, so the NULL return does not occur
parse_identifier(p) ==
    LET endp == identifier_end(p)
    IN  [identifier |-> CStr(SubSeq(p, 1, Len(p) - Len(endp))), s |-> endp]

(***************************************************************************)
(* Variable Environment: the list variables_head                            *)
(***************************************************************************)
RECURSIVE get_variable(_, _)
get_variable(vars, name) ==
    IF vars = <<>> THEN NAN
    ELSE IF Head(vars).name = name THEN Head(vars).value
    ELSE get_variable(Tail(vars), name)

set_variable(vars, name, value) ==
    IF \E i \in DOMAIN vars : vars[i].name = name
    THEN LET k == CHOOSE i \in DOMAIN vars :
                    /\ vars[i].name = name
                    /\ \A j \in 1..(i - 1) : vars[j].name # name
         IN  [vars EXCEPT ![k].value = value]
    ELSE <<[name |-> name, value |-> value]>> \o vars

(***************************************************************************)
(* Program Store: the list program_head                                    *)
(***************************************************************************)
\* the first node with that line number, 0 when there is none
find_program_line(prog, line_number) ==
    IF \E i \in DOMAIN prog : prog[i].line_number = line_number
    THEN CHOOSE i \in DOMAIN prog :
            /\ prog[i].line_number = line_number
            /\ \A j \in 1..(i - 1) : prog[j].line_number # line_number
    ELSE 0

\* the first node, in list order, with a greater line number, 0 when none
find_next_program_line(prog, line_number) ==
    IF \E i \in DOMAIN prog : prog[i].line_number > line_number
    THEN CHOOSE i \in DOMAIN prog :
            /\ prog[i].line_number > line_number
            /\ \A j \in 1..(i - 1) : ~(prog[j].line_number > line_number)
    ELSE 0

\* the list without its k-th node (unlink, for k # 0)
Unlink(prog, k) == SubSeq(prog, 1, k - 1) \o SubSeq(prog, k + 1, Len(prog))

\* a faulty walk, which passes the nodes with a greater number
RECURSIVE insert_after_greater(_, _, _)
insert_after_greater(prog, current, line_number) ==
    IF current < Len(prog) /\ prog[current + 1].line_number > line_number
    THEN insert_after_greater(prog, current + 1, line_number)
    ELSE current

\* the node after which the new line is linked: the walk of lines 511-515
RECURSIVE insert_after(_, _, _)
insert_after(prog, current, line_number) ==
    IF current < Len(prog) /\ prog[current + 1].line_number < line_number
    THEN insert_after(prog, current + 1, line_number)
    ELSE current

\* a faulty insertion, which leaves the existing line in the list
insert_program_line_keeping(prog, line_number, text) ==
    LET new_line == [line_number |-> line_number, text |-> text]
    IN  IF prog = <<>> \/ prog[1].line_number > line_number
        THEN <<new_line>> \o prog
        ELSE LET current == insert_after(prog, 1, line_number)
             IN  SubSeq(prog, 1, current) \o <<new_line>>
                    \o SubSeq(prog, current + 1, Len(prog))

insert_program_line_sorted(prog, line_number, text) ==
    LET existing == find_program_line(prog, line_number)
        rest == IF existing # 0 THEN Unlink(prog, existing) ELSE prog
        new_line == [line_number |-> line_number, text |-> text]
    IN  IF rest = <<>> \/ rest[1].line_number > line_number
        THEN <<new_line>> \o rest
        ELSE LET current == insert_after(rest, 1, line_number)
             IN  SubSeq(rest, 1, current) \o <<new_line>>
                    \o SubSeq(rest, current + 1, Len(rest))

insert_program_line(prog, line_number, text) ==
    insert_program_line_sorted(prog, line_number, text)

\* a faulty deletion, which drops the rest of the list with the line
delete_program_line_and_rest(prog, line_number) ==
    LET to_delete == find_program_line(prog, line_number)
    IN  IF to_delete = 0 THEN prog ELSE SubSeq(prog, 1, to_delete - 1)

delete_program_line(prog, line_number) ==
    LET to_delete == find_program_line(prog, line_number)
    IN  IF to_delete = 0 THEN prog ELSE Unlink(prog, to_delete)

clear_all_program_lines(prog) == <<>>

\* a faulty clearing, which stops one node short
clear_program_keeping_head(prog) == IF prog = <<>> THEN <<>> ELSE <<Head(prog)>>

clear_program(prog) == clear_all_program_lines(prog)

(***************************************************************************)
(* Function Registry: the list functions_head                              *)
(***************************************************************************)
MAX_FUNC_ARGS == 8

find_function(funcs, name) ==
    IF \E i \in DOMAIN funcs : funcs[i].name = name
    THEN CHOOSE i \in DOMAIN funcs :
            /\ funcs[i].name = name
            /\ \A j \in 1..(i - 1) : funcs[j].name # name
    ELSE 0

\* the registry after the call, and the call's return code
\* a registration that replaces the entry of a name already registered
g2basic_register_function_replacing(funcs, name, arg_count, func_ptr) ==
    IF find_function(funcs, name) # 0
    THEN [rc |-> 0,
          funcs |-> [funcs EXCEPT ![find_function(funcs, name)] =
                        [name |-> name, arg_count |-> arg_count,
                         func_ptr |-> func_ptr]]]
    ELSE [rc |-> 0,
          funcs |-> <<[name |-> name, arg_count |-> arg_count,
                       func_ptr |-> func_ptr]>> \o funcs]

g2basic_register_function(funcs, name, arg_count, func_ptr) ==
    IF find_function(funcs, name) # 0
    THEN [rc |-> -1, funcs |-> funcs]
    ELSE [rc |-> 0,
          funcs |-> <<[name |-> name, arg_count |-> arg_count,
                       func_ptr |-> func_ptr]>> \o funcs]

\* the built-in callbacks, on the integers and NAN.  sin, cos, tan, exp,
\* log and log10 are given where their value is an integer (or NAN).
RECURSIVE min_from(_, _, _)
min_from(args, i, min_val) ==
    IF i > Len(args) THEN min_val
    ELSE min_from(args, i + 1, IF DLt(args[i], min_val) THEN args[i] ELSE min_val)

RECURSIVE max_from(_, _, _)
max_from(args, i, max_val) ==
    IF i > Len(args) THEN max_val
    ELSE max_from(args, i + 1, IF DGt(args[i], max_val) THEN args[i] ELSE max_val)

RECURSIVE IntPow(_, _)
IntPow(b, e) == IF e = 0 THEN 1 ELSE b * IntPow(b, e - 1)

func_abs(args) ==
    IF Len(args) # 1 THEN NAN
    ELSE IF args[1].nan THEN NAN
    ELSE IF isinf(args[1]) THEN INF(1)
    ELSE Num(Abs(args[1].n))

func_sqrt(args) ==
    CASE Len(args) # 1 -> NAN
      [] Len(args) = 1 /\ (args[1].nan \/ DLt(args[1], Num(0))) -> NAN
      [] Len(args) = 1 /\ ~args[1].nan /\ isinf(args[1]) /\ args[1].n > 0 ->
            INF(1)
      [] Len(args) = 1 /\ ~args[1].nan /\ ~isinf(args[1])
            /\ \E r \in 0..args[1].n : r * r = args[1].n ->
            Num(CHOOSE r \in 0..args[1].n : r * r = args[1].n)

func_pow(args) ==
    CASE Len(args) # 2 -> NAN
      [] Len(args) = 2 /\ (args[1].nan \/ args[2].nan) -> NAN
      [] Len(args) = 2 /\ ~args[1].nan /\ ~args[2].nan
            /\ ~isinf(args[1]) /\ ~isinf(args[2]) /\ args[2].n >= 0 ->
            Num(IntPow(args[1].n, args[2].n))

func_floor(args) == IF Len(args) # 1 THEN NAN ELSE args[1]

func_ceil(args) == IF Len(args) # 1 THEN NAN ELSE args[1]

func_sin(args) ==
    CASE Len(args) # 1 -> NAN
      [] Len(args) = 1 /\ args[1].nan -> NAN
      [] Len(args) = 1 /\ DEq(args[1], Num(0)) -> Num(0)

func_cos(args) ==
    CASE Len(args) # 1 -> NAN
      [] Len(args) = 1 /\ args[1].nan -> NAN
      [] Len(args) = 1 /\ DEq(args[1], Num(0)) -> Num(1)

func_tan(args) ==
    CASE Len(args) # 1 -> NAN
      [] Len(args) = 1 /\ args[1].nan -> NAN
      [] Len(args) = 1 /\ DEq(args[1], Num(0)) -> Num(0)

func_exp(args) ==
    CASE Len(args) # 1 -> NAN
      [] Len(args) = 1 /\ args[1].nan -> NAN
      [] Len(args) = 1 /\ DEq(args[1], Num(0)) -> Num(1)

func_log(args) ==
    CASE Len(args) # 1 -> NAN
      [] Len(args) = 1 /\ (args[1].nan \/ DLe(args[1], Num(0))) -> NAN
      [] Len(args) = 1 /\ DEq(args[1], Num(1)) -> Num(0)

func_log10(args) ==
    CASE Len(args) # 1 -> NAN
      [] Len(args) = 1 /\ (args[1].nan \/ DLe(args[1], Num(0))) -> NAN
      [] Len(args) = 1 /\ DEq(args[1], Num(1)) -> Num(0)

func_min(args) == IF Len(args) < 1 THEN NAN ELSE min_from(args, 2, args[1])

func_max(args) == IF Len(args) < 1 THEN NAN ELSE max_from(args, 2, args[1])

\* the callback of the header's example: count != 1 gives NAN, else the square
my_square(args) ==
    IF Len(args) # 1 THEN NAN
    ELSE DMul(args[1], args[1])

\* func->func_ptr(args, arg_count): a callback is named by its C function
CallFunction(func_ptr, args) ==
    CASE func_ptr = "func_sin" -> func_sin(args)
      [] func_ptr = "func_cos" -> func_cos(args)
      [] func_ptr = "func_tan" -> func_tan(args)
      [] func_ptr = "func_sqrt" -> func_sqrt(args)
      [] func_ptr = "func_abs" -> func_abs(args)
      [] func_ptr = "func_pow" -> func_pow(args)
      [] func_ptr = "func_log" -> func_log(args)
      [] func_ptr = "func_log10" -> func_log10(args)
      [] func_ptr = "func_exp" -> func_exp(args)
      [] func_ptr = "func_floor" -> func_floor(args)
      [] func_ptr = "func_ceil" -> func_ceil(args)
      [] func_ptr = "func_min" -> func_min(args)
      [] func_ptr = "func_max" -> func_max(args)
      [] func_ptr = "my_square" -> my_square(args)

BuiltinTable ==
    << <<"sin", 1, "func_sin">>, <<"cos", 1, "func_cos">>, <<"tan", 1, "func_tan">>,
       <<"sqrt", 1, "func_sqrt">>, <<"abs", 1, "func_abs">>, <<"pow", 2, "func_pow">>,
       <<"log", 1, "func_log">>, <<"log10", 1, "func_log10">>, <<"exp", 1, "func_exp">>,
       <<"floor", 1, "func_floor">>, <<"ceil", 1, "func_ceil">>,
       <<"min", -1, "func_min">>, <<"max", -1, "func_max">> >>

RECURSIVE register_builtins(_, _)
register_builtins(funcs, i) ==
    IF i > Len(BuiltinTable) THEN funcs
    ELSE register_builtins(
            g2basic_register_function(funcs, BuiltinTable[i][1], BuiltinTable[i][2],
                                      BuiltinTable[i][3]).funcs, i + 1)

init_builtin_functions(funcs) == register_builtins(funcs, 1)

(***************************************************************************)
(* The parser.  A Parser value is [s, err, v, g]: the cursor p->s, the     *)
(* error p->err (NoErr for NULL), the double the last parse function       *)
(* returned, and g, the interpreter's globals as the function left them.   *)
(***************************************************************************)
NoErr == ""

\* C's `T x = e; ...`: e is evaluated once, and the rest K reads its value
With(x, K(_)) == CHOOSE y \in {K(v) : v \in {x}} : TRUE

Fail(p, msg) == [p EXCEPT !.err = msg, !.v = NAN]

Ret(p, value) == [p EXCEPT !.v = value]

\* accept(p, c): the parser after the call and the returned flag
accept(p, c) ==
    LET s1 == skip_ws(p.s)
    IN  IF Deref(s1) = c
        THEN [p |-> [p EXCEPT !.s = Tail(s1)], ok |-> TRUE]
        ELSE [p |-> [p EXCEPT !.s = s1], ok |-> FALSE]

expect(p, c) ==
    LET s1 == skip_ws(p.s)
    IN  IF Deref(s1) # c
        THEN [p EXCEPT !.s = s1, !.err = "expected '" \o c \o "'"]
        ELSE [p EXCEPT !.s = Tail(s1)]

\* strtod on the texts of the model: a run of decimal digits, and after it
\* an optional E and a second run, the decimal exponent.  A value above the
\* doubles, whose largest decimal exponent is 308, is HUGE_VAL.
strtod(p) ==
    With(strtol(p), LAMBDA m :
    IF Deref(m.endptr) \in {"e", "E"} /\ isdigit(Deref(Tail(m.endptr)))
    THEN With(strtol(Tail(m.endptr)), LAMBDA e :
         [value |-> IF m.value = 0 THEN Num(0)
                    ELSE IF e.value > 308 THEN INF(1)
                    ELSE Num(m.value * IntPow(10, e.value)),
          endptr |-> e.endptr])
    ELSE [value |-> Num(m.value), endptr |-> m.endptr])

parse_number(p) ==
    LET s1 == skip_ws(p.s)
    IN  IF ~isdigit(Deref(s1))
        THEN Fail([p EXCEPT !.s = s1], "expected number")
        ELSE With(strtod(s1), LAMBDA r :
             [p EXCEPT !.s = r.endptr, !.v = r.value])

\* a read that returns what get_variable found, a NaN included
parse_variable_unchecked(p) ==
    LET s1 == skip_ws(p.s)
    IN  IF ~is_alpha_or_underscore(Deref(s1))
        THEN Fail([p EXCEPT !.s = s1], "expected variable name")
        ELSE LET id == parse_identifier(s1)
             IN  [p EXCEPT !.s = id.s,
                           !.v = get_variable(p.g.variables_head, id.identifier)]

parse_variable(p) ==
    LET s1 == skip_ws(p.s)
    IN  IF ~is_alpha_or_underscore(Deref(s1))
        THEN Fail([p EXCEPT !.s = s1], "expected variable name")
        ELSE LET id == parse_identifier(s1)
                 value == get_variable(p.g.variables_head, id.identifier)
             IN  IF isnan(value)
                 THEN Fail([p EXCEPT !.s = id.s],
                           "undefined variable '" \o id.identifier \o "'")
                 ELSE [p EXCEPT !.s = id.s, !.v = value]

RECURSIVE parse_expr(_)
RECURSIVE parse_term(_)
RECURSIVE parse_factor(_)
RECURSIVE parse_function_call(_, _)
RECURSIVE parse_arguments(_, _)
RECURSIVE parse_term_loop(_)
RECURSIVE parse_expr_loop(_)

\* the do-while of parse_function_call: the parser and the arguments read
parse_arguments(p, args) ==
    IF Len(args) >= MAX_FUNC_ARGS
    THEN [p |-> Fail(p, "too many function arguments"), args |-> args]
    ELSE With(parse_expr(p), LAMBDA r :
         IF r.err # NoErr
         THEN [p |-> Ret(r, NAN), args |-> args]
         ELSE With(skip_ws(r.s), LAMBDA s1 :
              IF Deref(s1) = ","
              THEN parse_arguments([r EXCEPT !.s = Tail(s1)], Append(args, r.v))
              ELSE [p |-> [r EXCEPT !.s = s1], args |-> Append(args, r.v)]))

\* a call that leaves the argument count to the callback
call_function_unchecked(p, func_name, f, args) ==
    Ret(p, CallFunction(f.func_ptr, args))

\* lines 1280-1290: the argument count against the arity, then the call
call_function(p, func_name, f, args) ==
    IF f.arg_count >= 0 /\ Len(args) # f.arg_count
    THEN Fail(p, "function '" \o func_name \o "' expects "
                    \o ToString(f.arg_count) \o " arguments, got "
                    \o ToString(Len(args)))
    ELSE Ret(p, CallFunction(f.func_ptr, args))

parse_function_call(p, func_name) ==
    With(find_function(p.g.functions_head, func_name), LAMBDA func :
    IF func = 0
    THEN Fail(p, "unknown function '" \o func_name \o "'")
    ELSE
    With(expect(p, "("), LAMBDA p1 :
    IF p1.err # NoErr THEN Ret(p1, NAN)
    ELSE
    With(skip_ws(p1.s), LAMBDA s1 :
    With(IF Deref(s1) # ")"
         THEN parse_arguments([p1 EXCEPT !.s = s1], <<>>)
         ELSE [p |-> [p1 EXCEPT !.s = s1], args |-> <<>>], LAMBDA a :
    IF a.p.err # NoErr THEN Ret(a.p, NAN)
    ELSE
    With(expect(a.p, ")"), LAMBDA p2 :
    IF p2.err # NoErr THEN Ret(p2, NAN)
    ELSE call_function(p2, func_name, p.g.functions_head[func], a.args))))))

\* lines 1311-1329: an identifier, a call when '(' follows it
parse_name(p, s1) ==
    With(parse_identifier(s1), LAMBDA id :
    With(skip_ws(id.s), LAMBDA s2 :
    IF Deref(s2) = "("
    THEN parse_function_call([p EXCEPT !.s = s2], id.identifier)
    ELSE parse_variable([p EXCEPT !.s = s1])))

parse_factor(p) ==
    With(skip_ws(p.s), LAMBDA s1 :
    IF Deref(s1) = "+" \/ Deref(s1) = "-"
    THEN With(parse_factor([p EXCEPT !.s = Tail(s1)]), LAMBDA r :
         IF Deref(s1) = "-" THEN Ret(r, DNeg(r.v)) ELSE r)
    ELSE
    With(accept([p EXCEPT !.s = s1], "("), LAMBDA a :
    IF a.ok
    THEN With(parse_expr(a.p), LAMBDA r :
         IF r.err # NoErr THEN r ELSE Ret(expect(r, ")"), r.v))
    ELSE IF is_alpha_or_underscore(Deref(s1))
    THEN parse_name(p, s1)
    ELSE parse_number([p EXCEPT !.s = s1])))

\* the while loop of parse_term, entered with v in p.v
\* a faulty term loop, which divides by zero without a test and hands the
\* non-finite quotient on
parse_term_loop_unchecked(p) ==
    IF p.err # NoErr THEN p
    ELSE
    With(skip_ws(p.s), LAMBDA s1 :
    IF Deref(s1) = "*" \/ Deref(s1) = "/"
    THEN With(parse_factor([p EXCEPT !.s = Tail(s1)]), LAMBDA r :
         IF r.err # NoErr THEN Ret(r, p.v)
         ELSE IF Head(s1) = "*" THEN parse_term_loop(Ret(r, DMul(p.v, r.v)))
         ELSE IF DEq(r.v, Num(0)) THEN parse_term_loop(Ret(r, NAN))
         ELSE parse_term_loop(Ret(r, DDiv(p.v, r.v))))
    ELSE [p EXCEPT !.s = s1])

parse_term_loop(p) ==
    IF p.err # NoErr THEN p
    ELSE
    With(skip_ws(p.s), LAMBDA s1 :
    IF Deref(s1) = "*" \/ Deref(s1) = "/"
    THEN With(parse_factor([p EXCEPT !.s = Tail(s1)]), LAMBDA r :
         IF r.err # NoErr THEN Ret(r, p.v)
         ELSE IF Head(s1) = "*" THEN parse_term_loop(Ret(r, DMul(p.v, r.v)))
         ELSE IF DEq(r.v, Num(0)) THEN Fail(r, "division by zero")
         ELSE parse_term_loop(Ret(r, DDiv(p.v, r.v))))
    ELSE [p EXCEPT !.s = s1])

parse_term(p) == parse_term_loop(parse_factor(p))

\* the while loop of parse_expr, entered with v in p.v
\* a faulty expression loop, which gives '*' the precedence of '+' and '-'
parse_expr_loop_flat(p) ==
    IF p.err # NoErr THEN p
    ELSE
    With(skip_ws(p.s), LAMBDA s1 :
    IF Deref(s1) = "+" \/ Deref(s1) = "-" \/ Deref(s1) = "*"
    THEN With(parse_factor([p EXCEPT !.s = Tail(s1)]), LAMBDA r :
         IF r.err # NoErr THEN Ret(r, p.v)
         ELSE parse_expr_loop(
                Ret(r, IF Head(s1) = "+" THEN DAdd(p.v, r.v)
                       ELSE IF Head(s1) = "-" THEN DSub(p.v, r.v)
                       ELSE DMul(p.v, r.v))))
    ELSE [p EXCEPT !.s = s1])

parse_expr_loop(p) ==
    IF p.err # NoErr THEN p
    ELSE
    With(skip_ws(p.s), LAMBDA s1 :
    IF Deref(s1) = "+" \/ Deref(s1) = "-"
    THEN With(parse_term([p EXCEPT !.s = Tail(s1)]), LAMBDA r :
         IF r.err # NoErr THEN Ret(r, p.v)
         ELSE parse_expr_loop(
                Ret(r, IF Head(s1) = "+" THEN DAdd(p.v, r.v) ELSE DSub(p.v, r.v))))
    ELSE [p EXCEPT !.s = s1])

parse_expr(p) == parse_expr_loop(parse_term(p))

(***************************************************************************)
(* Statements                                                              *)
(***************************************************************************)
G2BASIC_KEYWORD_IF == <<"I", "F">>

G2BASIC_KEYWORD_THEN == <<"T", "H", "E", "N">>

G2BASIC_KEYWORD_FOR == <<"F", "O", "R">>

G2BASIC_KEYWORD_TO == <<"T", "O">>

G2BASIC_KEYWORD_NEXT == <<"N", "E", "X", "T">>

G2BASIC_KEYWORD_GOTO == <<"G", "O", "T", "O">>

G2BASIC_KEYWORD_GOSUB == <<"G", "O", "S", "U", "B">>

G2BASIC_KEYWORD_PRINT == <<"P", "R", "I", "N", "T">>

G2BASIC_KEYWORD_RETURN == <<"R", "E", "T", "U", "R", "N">>

G2BASIC_KEYWORD_END == <<"E", "N", "D">>

KEYWORD_STEP == <<"S", "T", "E", "P">>

\* the pending-jump target's two reserved values
NO_JUMP == -1

END_OF_PROGRAM == -2

MAX_LINE_NUMBER == 65535

\* the null function pointer
NULL_FN == "NULL"

safe_print(g, str) ==
    IF g.print_function # NULL_FN THEN [g EXCEPT !.out = Append(@, str)] ELSE g

safe_printf(g, str) == safe_print(g, str)

\* lines 808-818: after a value is printed, a comma followed by more text
\* continues the do-while
RECURSIVE parse_print_loop(_, _)
parse_print_next(r, s1, s2) ==
    IF Deref(s1) = "," /\ s2 # <<>>
    THEN parse_print_loop([r EXCEPT !.s = s2], FALSE)
    ELSE [r EXCEPT !.s = s2, !.g = safe_print(r.g, "\n"), !.v = Num(0)]

\* the do-while of parse_print_statement
parse_print_loop(p, first) ==
    With(parse_expr(IF ~first THEN [p EXCEPT !.g = safe_print(p.g, " ")] ELSE p),
         LAMBDA r :
    IF r.err # NoErr THEN Ret(r, NAN)
    ELSE
    With(skip_ws(r.s), LAMBDA s1 :
    parse_print_next([r EXCEPT !.g = safe_printf(r.g, FormatG(r.v))], s1,
                     IF Deref(s1) = "," THEN skip_ws(Tail(s1)) ELSE s1)))

\* a PRINT whose flag first starts out clear
parse_print_statement_first_clear(p) ==
    IF p.s = <<>>
    THEN [p EXCEPT !.g = safe_print(p.g, "\n"), !.v = Num(0)]
    ELSE parse_print_loop(p, FALSE)

parse_print_statement(p) ==
    IF p.s = <<>>
    THEN [p EXCEPT !.g = safe_print(p.g, "\n"), !.v = Num(0)]
    ELSE parse_print_loop(p, TRUE)

\* a faulty GOTO, which leaves the innermost FOR loop as it jumps
parse_goto_statement_leaving(p) ==
    IF ~isdigit(Deref(p.s)) THEN Fail(p, "GOTO requires a line number")
    ELSE LET r == strtol(p.s)
             target_line == r.value
         IN  IF target_line < 0 \/ target_line > MAX_LINE_NUMBER
             THEN Fail(p, "invalid GOTO line number")
             ELSE [p EXCEPT !.s = r.endptr, !.g.goto_target = target_line,
                            !.g.for_stack_head =
                                IF @ = <<>> THEN @ ELSE Tail(@),
                            !.v = Num(0)]

parse_goto_statement(p) ==
    IF ~isdigit(Deref(p.s)) THEN Fail(p, "GOTO requires a line number")
    ELSE LET r == strtol(p.s)
             target_line == r.value
         IN  IF target_line < 0 \/ target_line > MAX_LINE_NUMBER
             THEN Fail(p, "invalid GOTO line number")
             ELSE [p EXCEPT !.s = r.endptr, !.g.goto_target = target_line,
                            !.v = Num(0)]

BoolD(b) == IF b THEN Num(1) ELSE Num(0)

\* lines 869-885: the relation the operator characters name
compare(r, op1, op2, left, right) ==
    IF op1 = ">" /\ op2 = NUL THEN Ret(r, BoolD(DGt(left, right)))
    ELSE IF op1 = "<" /\ op2 = NUL THEN Ret(r, BoolD(DLt(left, right)))
    ELSE IF op1 = ">" /\ op2 = "=" THEN Ret(r, BoolD(DGe(left, right)))
    ELSE IF op1 = "<" /\ op2 = "=" THEN Ret(r, BoolD(DLe(left, right)))
    ELSE IF op1 = "=" /\ op2 = NUL THEN Ret(r, BoolD(DEq(left, right)))
    ELSE IF op1 = "<" /\ op2 = ">" THEN Ret(r, BoolD(~DEq(left, right)))
    ELSE Fail(r, "unknown comparison operator")

\* lines 855-867: the right operand after a one- or two-character operator
parse_comparison_right(l, op1, s2, two) ==
    With(parse_expr([l EXCEPT !.s = IF two THEN Tail(s2) ELSE s2]), LAMBDA r :
    IF r.err # NoErr THEN Ret(r, NAN)
    ELSE compare(r, op1, IF two THEN Deref(s2) ELSE NUL, l.v, r.v))

parse_comparison(p) ==
    With(parse_expr(p), LAMBDA l :
    IF l.err # NoErr THEN Ret(l, NAN)
    ELSE
    With(skip_ws(l.s), LAMBDA s1 :
    IF ~(Deref(s1) = ">" \/ Deref(s1) = "<" \/ Deref(s1) = "=")
    THEN Fail([l EXCEPT !.s = s1], "expected comparison operator")
    ELSE parse_comparison_right(l, Deref(s1), Tail(s1),
            Deref(Tail(s1)) = "=" \/ (Deref(Tail(s1)) = ">" /\ Deref(s1) = "<"))))

\* a faulty test, which excludes the bound
continue_loop_exclusive(current_val, loop) ==
    IF DGt(loop.step_value, Num(0))
    THEN DLt(current_val, loop.end_value)
    ELSE DGt(current_val, loop.end_value)

\* a faulty test, which takes every step for a positive one
continue_loop_ascending(current_val, loop) ==
    DLe(current_val, loop.end_value)

\* a faulty test, which takes a zero step for a positive one
continue_loop_zero_up(current_val, loop) ==
    IF DGe(loop.step_value, Num(0))
    THEN DLe(current_val, loop.end_value)
    ELSE DGe(current_val, loop.end_value)

\* NEXT's continuation test on the incremented value
continue_loop(current_val, loop) ==
    IF DGt(loop.step_value, Num(0))
    THEN DLe(current_val, loop.end_value)
    ELSE DGe(current_val, loop.end_value)

\* a faulty FOR, which reuses the top frame when it is the variable's own
push_for_loop_reusing(c, var_name, start_val, end_val, step_val) ==
    [c EXCEPT
        !.g.for_stack_head =
            <<[var_name |-> var_name, start_value |-> start_val,
               end_value |-> end_val, step_value |-> step_val,
               for_line_number |-> c.g.current_line_index]>>
                \o (IF @ # <<>> /\ Head(@).var_name = var_name
                    THEN Tail(@) ELSE @),
        !.g.variables_head = set_variable(@, var_name, start_val),
        !.v = Num(0)]

\* a FOR with an entry test: when the start value is past the end value it
\* pushes no frame and jumps to the line after the first NEXT below it
push_for_loop_tested(c, var_name, start_val, end_val, step_val) ==
    LET prog == c.g.program_head
        nexts == {i \in DOMAIN prog :
                    /\ prog[i].line_number > c.g.current_line_index
                    /\ is_keyword(prog[i].text, G2BASIC_KEYWORD_NEXT)}
        k == CHOOSE i \in nexts : \A j \in nexts : i <= j
    IN  IF (DGt(step_val, Num(0)) /\ DGt(start_val, end_val))
            \/ (DLt(step_val, Num(0)) /\ DLt(start_val, end_val))
        THEN [c EXCEPT
                !.g.variables_head = set_variable(@, var_name, start_val),
                !.g.goto_target =
                    IF nexts = {} \/ k = Len(prog) THEN END_OF_PROGRAM
                    ELSE prog[k + 1].line_number,
                !.v = Num(0)]
        ELSE [c EXCEPT
                !.g.for_stack_head =
                    <<[var_name |-> var_name, start_value |-> start_val,
                       end_value |-> end_val, step_value |-> step_val,
                       for_line_number |-> c.g.current_line_index]>> \o @,
                !.g.variables_head = set_variable(@, var_name, start_val),
                !.v = Num(0)]

\* lines 992-1027: the frame is pushed and the variable initialised
push_for_loop(c, var_name, start_val, end_val, step_val) ==
    [c EXCEPT
        !.g.for_stack_head =
            <<[var_name |-> var_name, start_value |-> start_val,
               end_value |-> end_val, step_value |-> step_val,
               for_line_number |-> c.g.current_line_index]>> \o @,
        !.g.variables_head = set_variable(@, var_name, start_val),
        !.v = Num(0)]

\* lines 970-990: the end value and the optional STEP
parse_for_end(a, var_name, s2) ==
    With(parse_expr([a EXCEPT !.s = Advance(s2, 2)]), LAMBDA b :
    IF b.err # NoErr THEN Ret(b, NAN)
    ELSE
    With(skip_ws(b.s), LAMBDA s3 :
    IF is_keyword(s3, KEYWORD_STEP)
    THEN With(parse_expr([b EXCEPT !.s = Advance(s3, 4)]), LAMBDA c :
         IF c.err # NoErr THEN Ret(c, NAN)
         ELSE push_for_loop(c, var_name, a.v, b.v, c.v))
    ELSE push_for_loop([b EXCEPT !.s = s3], var_name, a.v, b.v, Num(1))))

\* lines 953-968: the start value and TO
parse_for_start(p, var_name, s1) ==
    With(parse_expr([p EXCEPT !.s = Tail(s1)]), LAMBDA a :
    IF a.err # NoErr THEN Ret(a, NAN)
    ELSE
    With(skip_ws(a.s), LAMBDA s2 :
    IF ~is_keyword(s2, G2BASIC_KEYWORD_TO)
    THEN Fail([a EXCEPT !.s = s2], "expected TO after FOR start value")
    ELSE parse_for_end(a, var_name, s2)))

parse_for_statement(p) ==
    IF ~is_alpha_or_underscore(Deref(p.s))
    THEN Fail(p, "expected variable name after FOR")
    ELSE
    With(parse_identifier(p.s), LAMBDA id :
    With(skip_ws(id.s), LAMBDA s1 :
    IF Deref(s1) # "="
    THEN Fail([p EXCEPT !.s = s1], "expected '=' after FOR variable")
    ELSE parse_for_start(p, id.identifier, s1)))

\* a NEXT that unwinds the innermost frame when its variable differs
parse_next_statement_unwinding(p) ==
    IF ~is_alpha_or_underscore(Deref(p.s))
    THEN Fail(p, "expected variable name after NEXT")
    ELSE IF p.g.for_stack_head = <<>>
    THEN Fail([p EXCEPT !.s = parse_identifier(p.s).s],
              "NEXT without matching FOR")
    ELSE Fail([p EXCEPT !.s = parse_identifier(p.s).s,
                        !.g.for_stack_head = Tail(@)],
              "NEXT variable doesn't match FOR variable")

\* a faulty NEXT, which jumps to the number after the FOR line's own
parse_next_statement_plus_one(p) ==
    IF ~is_alpha_or_underscore(Deref(p.s))
    THEN Fail(p, "expected variable name after NEXT")
    ELSE
    LET id == parse_identifier(p.s)
        var_name == id.identifier
        p1 == [p EXCEPT !.s = id.s]
    IN  IF p.g.for_stack_head = <<>>
        THEN Fail(p1, "NEXT without matching FOR")
        ELSE
        LET loop == Head(p.g.for_stack_head)
            old_val == get_variable(p.g.variables_head, var_name)
            current_val == DAdd(old_val, loop.step_value)
        IN  IF loop.var_name # var_name
            THEN Fail(p1, "NEXT variable doesn't match FOR variable")
            ELSE IF isnan(old_val) THEN Fail(p1, "FOR variable not found")
            ELSE IF continue_loop(current_val, loop)
            THEN [p1 EXCEPT
                    !.g.variables_head = set_variable(@, var_name, current_val),
                    !.g.goto_target = loop.for_line_number + 1,
                    !.v = Num(0)]
            ELSE [p1 EXCEPT !.g.for_stack_head = Tail(@), !.v = Num(0)]

parse_next_statement(p) ==
    IF ~is_alpha_or_underscore(Deref(p.s))
    THEN Fail(p, "expected variable name after NEXT")
    ELSE
    LET id == parse_identifier(p.s)
        var_name == id.identifier
        p1 == [p EXCEPT !.s = id.s]
    IN  IF p.g.for_stack_head = <<>>
        THEN Fail(p1, "NEXT without matching FOR")
        ELSE
        LET loop == Head(p.g.for_stack_head)
            old_val == get_variable(p.g.variables_head, var_name)
            current_val == DAdd(old_val, loop.step_value)
            next_line == find_next_program_line(p.g.program_head,
                                                loop.for_line_number)
        IN  IF loop.var_name # var_name
            THEN Fail(p1, "NEXT variable doesn't match FOR variable")
            ELSE IF isnan(old_val) THEN Fail(p1, "FOR variable not found")
            ELSE IF continue_loop(current_val, loop)
            THEN [p1 EXCEPT
                    !.g.variables_head = set_variable(@, var_name, current_val),
                    !.g.goto_target =
                        IF next_line # 0
                        THEN p.g.program_head[next_line].line_number
                        ELSE @,
                    !.v = Num(0)]
            ELSE [p1 EXCEPT !.g.for_stack_head = Tail(@), !.v = Num(0)]

\* a faulty GOSUB, which stores NO_JUMP when no line follows its own
parse_gosub_statement_no_sentinel(p) ==
    IF ~isdigit(Deref(p.s)) THEN Fail(p, "GOSUB requires a line number")
    ELSE IF strtol(p.s).value < 0 \/ strtol(p.s).value > MAX_LINE_NUMBER
    THEN Fail(p, "invalid GOSUB line number")
    ELSE [p EXCEPT !.s = strtol(p.s).endptr,
                   !.g.gosub_stack_head =
                        <<[return_line_number |->
                            IF find_next_program_line(p.g.program_head,
                                                      p.g.current_line_index) # 0
                            THEN p.g.program_head[
                                    find_next_program_line(p.g.program_head,
                                        p.g.current_line_index)].line_number
                            ELSE NO_JUMP]>> \o @,
                   !.g.goto_target = strtol(p.s).value,
                   !.v = Num(0)]

\* a faulty GOSUB, which pushes its frame before it tests the target's range
parse_gosub_statement_pushing_first(p) ==
    IF ~isdigit(Deref(p.s)) THEN Fail(p, "GOSUB requires a line number")
    ELSE IF strtol(p.s).value < 0 \/ strtol(p.s).value > MAX_LINE_NUMBER
    THEN Fail([p EXCEPT !.g.gosub_stack_head =
                    <<[return_line_number |-> END_OF_PROGRAM]>> \o @],
              "invalid GOSUB line number")
    ELSE [p EXCEPT !.s = strtol(p.s).endptr,
                   !.g.gosub_stack_head =
                        <<[return_line_number |->
                            IF find_next_program_line(p.g.program_head,
                                                      p.g.current_line_index) # 0
                            THEN p.g.program_head[
                                    find_next_program_line(p.g.program_head,
                                        p.g.current_line_index)].line_number
                            ELSE END_OF_PROGRAM]>> \o @,
                   !.g.goto_target = strtol(p.s).value,
                   !.v = Num(0)]

parse_gosub_statement(p) ==
    IF ~isdigit(Deref(p.s)) THEN Fail(p, "GOSUB requires a line number")
    ELSE
    LET r == strtol(p.s)
        target_line == r.value
        next_line == find_next_program_line(p.g.program_head,
                                            p.g.current_line_index)
        entry == [return_line_number |->
                    IF next_line # 0
                    THEN p.g.program_head[next_line].line_number
                    ELSE END_OF_PROGRAM]
    IN  IF target_line < 0 \/ target_line > MAX_LINE_NUMBER
        THEN Fail(p, "invalid GOSUB line number")
        ELSE [p EXCEPT !.s = r.endptr,
                       !.g.gosub_stack_head = <<entry>> \o @,
                       !.g.goto_target = target_line,
                       !.v = Num(0)]

\* a RETURN that takes the oldest frame of the stack
parse_return_statement_oldest(p) ==
    IF p.g.gosub_stack_head = <<>>
    THEN Fail(p, "RETURN without matching GOSUB")
    ELSE [p EXCEPT !.g.gosub_stack_head = SubSeq(@, 1, Len(@) - 1),
                   !.g.goto_target =
                        p.g.gosub_stack_head[Len(p.g.gosub_stack_head)]
                            .return_line_number,
                   !.v = Num(0)]

\* a RETURN that treats an empty stack as the end of the program
parse_return_statement_ending(p) ==
    IF p.g.gosub_stack_head = <<>>
    THEN [p EXCEPT !.g.goto_target = END_OF_PROGRAM, !.v = Num(0)]
    ELSE [p EXCEPT !.g.gosub_stack_head = Tail(@),
                   !.g.goto_target =
                        Head(p.g.gosub_stack_head).return_line_number,
                   !.v = Num(0)]

parse_return_statement(p) ==
    IF p.g.gosub_stack_head = <<>>
    THEN Fail(p, "RETURN without matching GOSUB")
    ELSE
    LET return_line_number == Head(p.g.gosub_stack_head).return_line_number
    IN  [p EXCEPT !.g.gosub_stack_head = Tail(@),
                  !.g.goto_target =
                        IF return_line_number = END_OF_PROGRAM
                        THEN END_OF_PROGRAM
                        ELSE return_line_number,
                  !.v = Num(0)]

\* a faulty END, which sets no target
parse_end_statement_advancing(p) == [p EXCEPT !.v = Num(0)]

parse_end_statement(p) == [p EXCEPT !.g.goto_target = END_OF_PROGRAM, !.v = Num(0)]

\* the table keywords[]: the words in the order they are tried
keywords ==
    <<G2BASIC_KEYWORD_PRINT, G2BASIC_KEYWORD_GOTO, G2BASIC_KEYWORD_IF,
      G2BASIC_KEYWORD_FOR, G2BASIC_KEYWORD_NEXT, G2BASIC_KEYWORD_GOSUB,
      G2BASIC_KEYWORD_RETURN, G2BASIC_KEYWORD_END>>

RECURSIVE parse_statement(_)
RECURSIVE parse_if_statement(_)

\* lines 903-930: the THEN part, s2 the text after THEN
\* a faulty THEN, which executes its part whatever the condition is
parse_then_executing(c, s2) ==
    IF isdigit(Deref(s2))
    THEN With(strtol(s2), LAMBDA r :
         IF r.value < 0 \/ r.value > MAX_LINE_NUMBER
         THEN Fail([c EXCEPT !.s = s2], "invalid IF-THEN line number")
         ELSE [c EXCEPT !.s = r.endptr, !.g.goto_target = r.value,
                        !.v = Num(0)])
    ELSE parse_statement([c EXCEPT !.s = s2])

parse_then(c, s2) ==
    IF ~DEq(c.v, Num(0))
    THEN IF isdigit(Deref(s2))
         THEN With(strtol(s2), LAMBDA r :
              IF r.value < 0 \/ r.value > MAX_LINE_NUMBER
              THEN Fail([c EXCEPT !.s = s2], "invalid IF-THEN line number")
              ELSE [c EXCEPT !.s = r.endptr, !.g.goto_target = r.value,
                             !.v = Num(0)])
         ELSE parse_statement([c EXCEPT !.s = s2])
    ELSE [c EXCEPT !.s = <<>>, !.v = Num(0)]

parse_if_statement(p) ==
    With(parse_comparison(p), LAMBDA c :
    IF c.err # NoErr THEN Ret(c, NAN)
    ELSE
    With(skip_ws(c.s), LAMBDA s1 :
    IF ~is_keyword(s1, G2BASIC_KEYWORD_THEN)
    THEN Fail([c EXCEPT !.s = s1], "expected THEN after IF condition")
    ELSE parse_then(c, skip_ws(skip_word(s1, G2BASIC_KEYWORD_THEN)))))

\* kw->parser_func(p) for the k-th entry of keywords[]
parser_func(k, p) ==
    CASE k = 1 -> parse_print_statement(p)
      [] k = 2 -> parse_goto_statement(p)
      [] k = 3 -> parse_if_statement(p)
      [] k = 4 -> parse_for_statement(p)
      [] k = 5 -> parse_next_statement(p)
      [] k = 6 -> parse_gosub_statement(p)
      [] k = 7 -> parse_return_statement(p)
      [] k = 8 -> parse_end_statement(p)

\* lines 1398-1409: the assignment IDENTIFIER '=' expr
parse_assignment(p, identifier) ==
    With(parse_expr(p), LAMBDA r :
    IF r.err # NoErr THEN r
    ELSE [r EXCEPT !.g.variables_head = set_variable(@, identifier, r.v)])

\* lines 1387-1416: an assignment when '=' follows an identifier, else an
\* expression parsed again from saved_pos
parse_assignment_or_expr(p) ==
    With(parse_identifier(p.s), LAMBDA id :
    With(skip_ws(id.s), LAMBDA s1 :
    IF is_alpha_or_underscore(Deref(p.s)) /\ Deref(s1) = "="
    THEN parse_assignment([p EXCEPT !.s = Tail(s1)], id.identifier)
    ELSE parse_expr(p)))

\* the first entry of keywords[] the text starts with, 0 when there is none
RECURSIVE match_keyword(_, _)
match_keyword(s, k) ==
    IF k > Len(keywords) THEN 0
    ELSE IF is_keyword(s, keywords[k]) THEN k
    ELSE match_keyword(s, k + 1)

parse_statement(p) ==
    With(skip_ws(p.s), LAMBDA s1 :
    With(match_keyword(s1, 1), LAMBDA k :
    IF k # 0
    THEN parser_func(k, [p EXCEPT !.s = skip_ws(skip_word(s1, keywords[k]))])
    ELSE parse_assignment_or_expr([p EXCEPT !.s = s1])))

\* g2basic_eval: the return code, *result, *error (kept when not written)
\* and the globals after the call
g2basic_eval(expr, result0, error0, g) ==
    With(parse_statement([s |-> expr, err |-> NoErr, v |-> NAN, g |-> g]),
         LAMBDA p :
    IF p.err # NoErr
    THEN [ret |-> -1, result |-> result0, error |-> p.err, g |-> p.g]
    ELSE IF skip_ws(p.s) # <<>>
    THEN [ret |-> -1, result |-> result0,
          error |-> "Unexpected characters at end", g |-> p.g]
    ELSE [ret |-> 0, result |-> p.v, error |-> error0, g |-> p.g])

(***************************************************************************)
(* Interpreter state                                                       *)
(***************************************************************************)
VARIABLES
    variables_head,     \* list of [name, value], newest first
    functions_head,     \* list of [name, arg_count, func_ptr], newest first
    program_head,       \* list of [line_number, text]
    goto_target,        \* pending-jump target, NO_JUMP or END_OF_PROGRAM
    for_stack_head,     \* FOR frames, innermost first
    current_line_index, \* number of the line being executed
    gosub_stack_head,   \* GOSUB frames, innermost first
    print_function,     \* the output sink, NULL_FN when absent
    out,                \* what the sink received during the current call
    pc,                 \* "start": initialised, no call made yet;
                        \* "idle": g2basic_parse has returned;
                        \* "run": in run_program, the reset done;
                        \* "line": at the evaluation of the cursor's line;
                        \* "jump": at the jump resolution after it
    current_line,       \* run_program's cursor into program_head, 0 = NULL
    input,              \* the text of the current (or last) g2basic_parse call
    ret,                \* its return code
    result,             \* *result
    error,              \* *error, NoErr when the call left it NULL
    entry               \* the globals as the current (or last) call found them

vars == <<variables_head, functions_head, program_head, goto_target,
          for_stack_head, current_line_index, gosub_stack_head,
          print_function, out, pc, current_line, input, ret, result, error,
          entry>>

\* the globals of g2basic.c (lines 202-215) with the sink's record
Globals ==
    [variables_head |-> variables_head, functions_head |-> functions_head,
     program_head |-> program_head, goto_target |-> goto_target,
     for_stack_head |-> for_stack_head,
     current_line_index |-> current_line_index,
     gosub_stack_head |-> gosub_stack_head,
     print_function |-> print_function, out |-> out]

SetGlobals(g) ==
    /\ variables_head' = g.variables_head
    /\ functions_head' = g.functions_head
    /\ program_head' = g.program_head
    /\ goto_target' = g.goto_target
    /\ for_stack_head' = g.for_stack_head
    /\ current_line_index' = g.current_line_index
    /\ gosub_stack_head' = g.gosub_stack_head
    /\ print_function' = g.print_function
    /\ out' = g.out

\* bounds of the exploration
MaxStack == 2

MaxOut == 8

\* a step is explored while the stacks and the sink's record stay in bounds
InBounds(g) ==
    /\ Len(g.for_stack_head) <= MaxStack
    /\ Len(g.gosub_stack_head) <= MaxStack
    /\ Len(g.out) <= MaxOut

\* a faulty init, which does not clear the registry before it registers the
\* built-ins
g2basic_init_keeping_functions(g, print_func) ==
    [variables_head |-> <<>>,
     functions_head |-> init_builtin_functions(g.functions_head),
     program_head |-> <<>>,
     goto_target |-> NO_JUMP,
     for_stack_head |-> <<>>,
     current_line_index |-> -1,
     gosub_stack_head |-> <<>>,
     print_function |-> print_func,
     out |-> g.out]

\* g2basic_init(print_func), from the state of a fresh process
g2basic_init(g, print_func) ==
    [variables_head |-> <<>>,
     functions_head |-> init_builtin_functions(<<>>),
     program_head |-> <<>>,
     goto_target |-> NO_JUMP,
     for_stack_head |-> <<>>,
     current_line_index |-> -1,
     gosub_stack_head |-> <<>>,
     print_function |-> print_func,
     out |-> g.out]

Fresh ==
    [variables_head |-> <<>>, functions_head |-> <<>>, program_head |-> <<>>,
     goto_target |-> NO_JUMP, for_stack_head |-> <<>>, current_line_index |-> -1,
     gosub_stack_head |-> <<>>, print_function |-> NULL_FN, out |-> <<>>]

Init ==
    /\ variables_head = g2basic_init(Fresh, "print_func").variables_head
    /\ functions_head = g2basic_init(Fresh, "print_func").functions_head
    /\ program_head = g2basic_init(Fresh, "print_func").program_head
    /\ goto_target = g2basic_init(Fresh, "print_func").goto_target
    /\ for_stack_head = g2basic_init(Fresh, "print_func").for_stack_head
    /\ current_line_index = g2basic_init(Fresh, "print_func").current_line_index
    /\ gosub_stack_head = g2basic_init(Fresh, "print_func").gosub_stack_head
    /\ print_function = g2basic_init(Fresh, "print_func").print_function
    /\ out = <<>>
    /\ pc = "start"
    /\ current_line = 0
    /\ input = <<>>
    /\ ret = 0
    /\ result = NAN
    /\ error = NoErr
    /\ entry = g2basic_init(Fresh, "print_func")

(***************************************************************************)
(* Commands and the line-intake entry point                                *)
(***************************************************************************)
CMD_LIST == <<"L", "I", "S", "T">>

CMD_RUN == <<"R", "U", "N">>

CMD_NEW == <<"N", "E", "W">>

\* list_program: one safe_printf("%d %s\n") per line, in list order
RECURSIVE list_program_from(_, _)
list_program_from(g, current) ==
    IF current > Len(g.program_head) THEN g
    ELSE list_program_from(
            safe_printf(g, ToString(g.program_head[current].line_number) \o " "
                            \o CStr(g.program_head[current].text) \o "\n"),
            current + 1)

\* a faulty LIST, which walks the list with program_head itself
list_program_by_head(g) ==
    [list_program_from(g, 1) EXCEPT !.program_head = <<>>]

list_program(g) == list_program_from(g, 1)

\* a faulty reset, which leaves the GOSUB stack as it finds it
run_program_begin_keeping(g) ==
    [g EXCEPT !.goto_target = NO_JUMP, !.for_stack_head = <<>>]

\* a faulty reset, which leaves a pending jump as it finds it
run_program_begin_pending(g) ==
    [g EXCEPT !.for_stack_head = <<>>, !.gosub_stack_head = <<>>]

\* lines 708-710 of run_program: the reset
run_program_begin(g) ==
    [g EXCEPT !.goto_target = NO_JUMP, !.for_stack_head = <<>>,
              !.gosub_stack_head = <<>>]

\* which command handle_basic_command finds in the input, "" for none
handle_basic_command(text) ==
    LET p == skip_ws(text)
    IN  IF is_keyword(p, CMD_LIST) THEN "LIST"
        ELSE IF is_keyword(p, CMD_RUN) THEN "RUN"
        ELSE IF is_keyword(p, CMD_NEW) THEN "NEW"
        ELSE ""

\* a faulty intake, which also executes the statement it stores
parse_numbered_line_executing(p, result0, error0, g) ==
    With(strtol(p), LAMBDA r :
    With(skip_isspace(r.endptr), LAMBDA q :
    IF r.value < 0 \/ r.value > MAX_LINE_NUMBER
    THEN [ret |-> -1, result |-> result0, error |-> error0, g |-> g,
          running |-> FALSE]
    ELSE IF q = <<>>
    THEN [ret |-> 1, result |-> Num(r.value), error |-> error0,
          g |-> [g EXCEPT !.program_head = delete_program_line(@, r.value)],
          running |-> FALSE]
    ELSE [ret |-> 2, result |-> Num(r.value), error |-> error0,
          g |-> [g2basic_eval(q, result0, error0, g).g EXCEPT
                    !.program_head = insert_program_line(@, r.value, q)],
          running |-> FALSE]))

\* lines 1471-1496: the text at p starts with a digit
parse_numbered_line(p, result0, error0, g) ==
    With(strtol(p), LAMBDA r :
    With(skip_isspace(r.endptr), LAMBDA q :
    IF r.value < 0 \/ r.value > MAX_LINE_NUMBER
    THEN [ret |-> -1, result |-> result0, error |-> error0, g |-> g,
          running |-> FALSE]
    ELSE IF q = <<>>
    THEN [ret |-> 1, result |-> Num(r.value), error |-> error0,
          g |-> [g EXCEPT !.program_head = delete_program_line(@, r.value)],
          running |-> FALSE]
    ELSE [ret |-> 2, result |-> Num(r.value), error |-> error0,
          g |-> [g EXCEPT !.program_head = insert_program_line(@, r.value, q)],
          running |-> FALSE]))

\* lines 1464-1468: the command has executed (running: RUN is inside
\* run_program's loop and the call has not returned)
command_executed(error0, g, running) ==
    [ret |-> 3, result |-> Num(0), error |-> error0, g |-> g,
     running |-> running]

\* lines 1497-1500: immediate mode
parse_immediate(text, result0, error0, g) ==
    With(g2basic_eval(text, result0, error0, g), LAMBDA r :
    [ret |-> r.ret, result |-> r.result, error |-> r.error, g |-> r.g,
     running |-> FALSE])

\* g2basic_parse(text, &result, &error) up to its return, or up to
\* run_program's reset when the command is RUN.  result0 and error0 are the
\* caller's values on entry.
g2basic_parse(text, result0, error0, g) ==
    With(handle_basic_command(text), LAMBDA command :
    IF command = "LIST" THEN command_executed(error0, list_program(g), FALSE)
    ELSE IF command = "RUN"
    THEN command_executed(error0, run_program_begin(g), TRUE)
    ELSE IF command = "NEW"
    THEN command_executed(error0,
            [g EXCEPT !.program_head = clear_program(@)], FALSE)
    ELSE IF isdigit(Deref(skip_isspace(text)))
    THEN parse_numbered_line(skip_isspace(text), result0, error0, g)
    ELSE parse_immediate(text, result0, error0, g))

\* lines 723-729: the line's evaluation failed
run_program_error(g, line_number, error0) ==
    safe_printf(g, "Error in line " \o ToString(line_number) \o ": "
                    \o error0 \o "\n")

\* a faulty pass, which reports the line's error and goes on to the next line
run_program_line_skipping(g, cursor) ==
    With(g2basic_eval(g.program_head[cursor].text, NAN, NoErr,
            [g EXCEPT !.current_line_index = g.program_head[cursor].line_number]),
         LAMBDA r :
    IF r.ret # 0
    THEN [g |-> run_program_error(r.g, g.program_head[cursor].line_number, r.error),
          returned |-> FALSE]
    ELSE [g |-> r.g, returned |-> FALSE])

\* one pass of run_program's loop up to line 729: evaluate the line at the
\* cursor; returned: run_program has returned -1
run_program_line(g, cursor) ==
    With(g2basic_eval(g.program_head[cursor].text, NAN, NoErr,
            [g EXCEPT !.current_line_index = g.program_head[cursor].line_number]),
         LAMBDA r :
    IF r.ret # 0
    THEN [g |-> run_program_error(r.g, g.program_head[cursor].line_number, r.error),
          returned |-> TRUE]
    ELSE [g |-> r.g, returned |-> FALSE])

\* a faulty resolution, which jumps and leaves the target pending
run_program_jump_pending(g, cursor) ==
    LET target_line == find_program_line(g.program_head, g.goto_target)
        next == IF cursor < Len(g.program_head) THEN cursor + 1 ELSE 0
    IN  IF g.goto_target # NO_JUMP
        THEN IF g.goto_target = END_OF_PROGRAM
             THEN [g |-> g, current_line |-> cursor, returned |-> TRUE]
             ELSE IF target_line = 0
             THEN [g |-> safe_printf(g, "Error: line " \o ToString(g.goto_target)
                                            \o " not found\n"),
                   current_line |-> cursor, returned |-> TRUE]
             ELSE [g |-> g, current_line |-> target_line, returned |-> FALSE]
        ELSE [g |-> g, current_line |-> next, returned |-> next = 0]

\* a faulty resolution, which drops a target it does not find and advances
run_program_jump_advancing(g, cursor) ==
    LET target_line == find_program_line(g.program_head, g.goto_target)
        next == IF cursor < Len(g.program_head) THEN cursor + 1 ELSE 0
    IN  IF g.goto_target # NO_JUMP /\ g.goto_target = END_OF_PROGRAM
        THEN [g |-> g, current_line |-> cursor, returned |-> TRUE]
        ELSE IF g.goto_target # NO_JUMP /\ target_line # 0
        THEN [g |-> [g EXCEPT !.goto_target = NO_JUMP],
              current_line |-> target_line, returned |-> FALSE]
        ELSE [g |-> [g EXCEPT !.goto_target = NO_JUMP],
              current_line |-> next, returned |-> next = 0]

\* a faulty pass, which does not move the cursor when no jump is pending
run_program_jump_repeating(g, cursor) ==
    LET target_line == find_program_line(g.program_head, g.goto_target)
    IN  IF g.goto_target # NO_JUMP
        THEN IF g.goto_target = END_OF_PROGRAM
             THEN [g |-> g, current_line |-> cursor, returned |-> TRUE]
             ELSE IF target_line = 0
             THEN [g |-> safe_printf(g, "Error: line " \o ToString(g.goto_target)
                                            \o " not found\n"),
                   current_line |-> cursor, returned |-> TRUE]
             ELSE [g |-> [g EXCEPT !.goto_target = NO_JUMP],
                   current_line |-> target_line, returned |-> FALSE]
        ELSE [g |-> g, current_line |-> cursor, returned |-> FALSE]

\* lines 731-748 and the loop test: resolve the pending jump or advance;
\* returned: run_program has returned
run_program_jump(g, cursor) ==
    LET target_line == find_program_line(g.program_head, g.goto_target)
        next == IF cursor < Len(g.program_head) THEN cursor + 1 ELSE 0
    IN  IF g.goto_target # NO_JUMP
        THEN IF g.goto_target = END_OF_PROGRAM
             THEN [g |-> g, current_line |-> cursor, returned |-> TRUE]
             ELSE IF target_line = 0
             THEN [g |-> safe_printf(g, "Error: line " \o ToString(g.goto_target)
                                            \o " not found\n"),
                   current_line |-> cursor, returned |-> TRUE]
             ELSE [g |-> [g EXCEPT !.goto_target = NO_JUMP],
                   current_line |-> target_line, returned |-> FALSE]
        ELSE [g |-> g, current_line |-> next, returned |-> next = 0]

(***************************************************************************)
(* Actions                                                                 *)
(***************************************************************************)
\* run_program has returned: handle_basic_command returns true and
\* g2basic_parse stores 0 and returns 3
RunReturns ==
    /\ pc' = "idle"
    /\ current_line' = 0
    /\ ret' = 3
    /\ result' = Num(0)
    /\ UNCHANGED <<input, error, entry>>

\* g2basic_parse's effects r on the state
parse_returns(text, r) ==
    /\ InBounds(r.g)
    /\ SetGlobals(r.g)
    /\ input' = text
    /\ error' = r.error
    /\ IF r.running
       THEN /\ pc' = "run"
            /\ UNCHANGED <<ret, result>>
       ELSE /\ pc' = "idle"
            /\ ret' = r.ret
            /\ result' = r.result
    /\ current_line' = 0
    /\ entry' = Globals

\* the caller submits text: error = NULL, then g2basic_parse(text, ...)
submit_line(text) ==
    /\ pc \in {"start", "idle", "registered"}
    /\ parse_returns(text,
          g2basic_parse(text, result, NoErr, [Globals EXCEPT !.out = <<>>]))

\* g2basic_register_function's effects r on the state: the caller keeps the
\* name it passed and the code returned
function_registered(name, r) ==
    /\ functions_head' = r.funcs
    /\ ret' = r.rc
    /\ input' = name
    /\ pc' = "registered"
    /\ entry' = Globals
    /\ UNCHANGED <<variables_head, program_head, goto_target, for_stack_head,
                   current_line_index, gosub_stack_head, print_function, out,
                   current_line, result, error>>

\* the caller registers a function between two lines
register_function(name, arg_count, func_ptr) ==
    /\ pc \in {"start", "idle", "registered"}
    /\ function_registered(name,
          g2basic_register_function(functions_head, CStr(name), arg_count,
                                    func_ptr))

\* the caller calls g2basic_init(print_func) again between two lines
init_again ==
    /\ pc \in {"start", "idle", "registered"}
    /\ SetGlobals(g2basic_init(Globals, "print_func"))
    /\ pc' = "start"
    /\ entry' = Globals
    /\ UNCHANGED <<current_line, input, ret, result, error>>

\* lines 712-714: the cursor at the head of the list, and the loop's first
\* test
RunBegin ==
    /\ pc = "run"
    /\ IF program_head = <<>>
       THEN RunReturns /\ UNCHANGED <<variables_head, functions_head, program_head,
                                      goto_target, for_stack_head,
                                      current_line_index, gosub_stack_head,
                                      print_function, out>>
       ELSE /\ pc' = "line"
            /\ current_line' = 1
            /\ UNCHANGED <<variables_head, functions_head, program_head,
                           goto_target, for_stack_head, current_line_index,
                           gosub_stack_head, print_function, out, input, ret,
                           result, error, entry>>

\* run_program_line's effects r on the state
line_executed(r) ==
    /\ InBounds(r.g)
    /\ SetGlobals(r.g)
    /\ IF r.returned
       THEN RunReturns
       ELSE /\ pc' = "jump"
            /\ UNCHANGED <<current_line, input, ret, result, error, entry>>

RunLine ==
    /\ pc = "line"
    /\ \E r \in {run_program_line(Globals, current_line)} : line_executed(r)

\* run_program_jump's effects r on the state
jump_resolved(r) ==
    /\ SetGlobals(r.g)
    /\ IF r.returned
       THEN RunReturns
       ELSE /\ pc' = "line"
            /\ current_line' = r.current_line
            /\ UNCHANGED <<input, ret, result, error, entry>>

RunJump ==
    /\ pc = "jump"
    /\ \E r \in {run_program_jump(Globals, current_line)} : jump_resolved(r)

(***************************************************************************)
(* The texts submitted                                                     *)
(***************************************************************************)
\* "RUN"
T_RUN ==
    <<"R", "U", "N">>

\* "LIST"
T_LIST ==
    <<"L", "I", "S", "T">>

\* "NEW"
T_NEW ==
    <<"N", "E", "W">>

\* "10 X = 1"
T_10_X1 ==
    <<"1", "0", " ", "X", " ", "=", " ", "1">>

\* " 10  X = 2"
T_10_X2 ==
    <<" ", "1", "0", " ", " ", "X", " ", "=", " ", "2">>

\* "10"
T_10 ==
    <<"1", "0">>

\* "  10  "
T_10_BLANK ==
    <<" ", " ", "1", "0", " ", " ">>

\* "20 PRINT X"
T_20_PRINT_X ==
    <<"2", "0", " ", "P", "R", "I", "N", "T", " ", "X">>

\* "  20  "
T_20 ==
    <<" ", " ", "2", "0", " ", " ">>

\* "30 END"
T_30_END ==
    <<"3", "0", " ", "E", "N", "D">>

\* "30"
T_30 ==
    <<"3", "0">>

\* "X = 5"
T_X5 ==
    <<"X", " ", "=", " ", "5">>

\* "10 GOSUB 30"
T_10_GOSUB_30 ==
    <<"1", "0", " ", "G", "O", "S", "U", "B", " ", "3", "0">>

\* "10 GOTO 30"
T_10_GOTO_30 ==
    <<"1", "0", " ", "G", "O", "T", "O", " ", "3", "0">>

\* "10 IF 1 < 2 THEN 30"
T_10_IF_30 ==
    <<"1", "0", " ", "I", "F", " ", "1", " ", "<", " ", "2", " ", "T", "H",
      "E", "N", " ", "3", "0">>

\* "20 PRINT 2"
T_20_PRINT_2 ==
    <<"2", "0", " ", "P", "R", "I", "N", "T", " ", "2">>

\* "30 GOTO 20"
T_30_GOTO_20 ==
    <<"3", "0", " ", "G", "O", "T", "O", " ", "2", "0">>

\* "FOR I = 1 TO 2"
T_FOR_I ==
    <<"F", "O", "R", " ", "I", " ", "=", " ", "1", " ", "T", "O", " ", "2">>

\* "GOSUB 20"
T_GOSUB_20 ==
    <<"G", "O", "S", "U", "B", " ", "2", "0">>

\* "GOTO 20"
T_GOTO_20 ==
    <<"G", "O", "T", "O", " ", "2", "0">>

\* "IF 1 < 2 THEN 20"
T_IF_20 ==
    <<"I", "F", " ", "1", " ", "<", " ", "2", " ", "T", "H", "E", "N", " ",
      "2", "0">>

\* "10 FOR I = 1 TO 3"
T_FOR_1_3 ==
    <<"1", "0", " ", "F", "O", "R", " ", "I", " ", "=", " ", "1", " ", "T",
      "O", " ", "3">>

\* "10 FOR I = 5 TO 1"
T_FOR_5_1 ==
    <<"1", "0", " ", "F", "O", "R", " ", "I", " ", "=", " ", "5", " ", "T",
      "O", " ", "1">>

\* "10 FOR I = 1 TO 5 STEP 2"
T_FOR_1_5_2 ==
    <<"1", "0", " ", "F", "O", "R", " ", "I", " ", "=", " ", "1", " ", "T",
      "O", " ", "5", " ", "S", "T", "E", "P", " ", "2">>

\* "10 FOR I = 3 TO 1 STEP -1"
T_FOR_3_1_M1 ==
    <<"1", "0", " ", "F", "O", "R", " ", "I", " ", "=", " ", "3", " ", "T",
      "O", " ", "1", " ", "S", "T", "E", "P", " ", "-", "1">>

\* "10 FOR I = 1 TO 3 STEP -1"
T_FOR_1_3_M1 ==
    <<"1", "0", " ", "F", "O", "R", " ", "I", " ", "=", " ", "1", " ", "T",
      "O", " ", "3", " ", "S", "T", "E", "P", " ", "-", "1">>

\* "20 PRINT I"
T_20_PRINT_I ==
    <<"2", "0", " ", "P", "R", "I", "N", "T", " ", "I">>

\* "30 NEXT I"
T_30_NEXT_I ==
    <<"3", "0", " ", "N", "E", "X", "T", " ", "I">>

\* "40 END"
T_40_END ==
    <<"4", "0", " ", "E", "N", "D">>

\* "FOR J = 1 TO 2"
T_FOR_J ==
    <<"F", "O", "R", " ", "J", " ", "=", " ", "1", " ", "T", "O", " ", "2">>

\* "NEXT I"
T_NEXT_I ==
    <<"N", "E", "X", "T", " ", "I">>

\* "NEXT J"
T_NEXT_J ==
    <<"N", "E", "X", "T", " ", "J">>

\* "10 GOSUB 40"
T_10_GOSUB_40 ==
    <<"1", "0", " ", "G", "O", "S", "U", "B", " ", "4", "0">>

\* "40 GOSUB 60"
T_40_GOSUB_60 ==
    <<"4", "0", " ", "G", "O", "S", "U", "B", " ", "6", "0">>

\* "50 RETURN"
T_50_RETURN ==
    <<"5", "0", " ", "R", "E", "T", "U", "R", "N">>

\* "60 RETURN"
T_60_RETURN ==
    <<"6", "0", " ", "R", "E", "T", "U", "R", "N">>

\* "SQUARE(3)"
T_SQUARE_3 ==
    <<"S", "Q", "U", "A", "R", "E", "(", "3", ")">>

\* "abs(-3)"
T_ABS_M3 ==
    <<"a", "b", "s", "(", "-", "3", ")">>

\* the names passed to g2basic_register_function: "SQUARE"
N_SQUARE ==
    <<"S", "Q", "U", "A", "R", "E">>

\* "abs"
N_ABS ==
    <<"a", "b", "s">>

\* "X = 1/0"
T_X_DIV ==
    <<"X", " ", "=", " ", "1", "/", "0">>

\* "30 X = 1/(X-1)"
T_30_X_DIV ==
    <<"3", "0", " ", "X", " ", "=", " ", "1", "/", "(", "X", "-", "1", ")">>

\* "30 IF 1 < 2 THEN END"
T_30_IF_END ==
    <<"3", "0", " ", "I", "F", " ", "1", " ", "<", " ", "2", " ", "T", "H",
      "E", "N", " ", "E", "N", "D">>

\* "40 PRINT 4"
T_40_PRINT_4 ==
    <<"4", "0", " ", "P", "R", "I", "N", "T", " ", "4">>

\* "10 GOSUB 20"
T_10_GOSUB_20 ==
    <<"1", "0", " ", "G", "O", "S", "U", "B", " ", "2", "0">>

\* "10 FOR X = 1 TO 2"
T_10_FOR_X ==
    <<"1", "0", " ", "F", "O", "R", " ", "X", " ", "=", " ", "1", " ", "T",
      "O", " ", "2">>

\* "2 + 3 * 4"
T_EXPR ==
    <<"2", " ", "+", " ", "3", " ", "*", " ", "4">>

\* "X"
T_X ==
    <<"X">>

\* "X = 7 junk"
T_X7_JUNK ==
    <<"X", " ", "=", " ", "7", " ", "j", "u", "n", "k">>

\* "X = sqrt(-1)"
T_X_SQRT ==
    <<"X", " ", "=", " ", "s", "q", "r", "t", "(", "-", "1", ")">>

\* "(2 + 3 * 4)"
T_EXPR_PAREN ==
    <<"(", "2", " ", "+", " ", "3", " ", "*", " ", "4", ")">>

\* "  rUn "
T_RUN_MIXED ==
    <<" ", " ", "r", "U", "n", " ">>

\* "list 10"
T_LIST_ARG ==
    <<"l", "i", "s", "t", " ", "1", "0">>

\* "New = 5"
T_NEW_ASSIGN ==
    <<"N", "e", "w", " ", "=", " ", "5">>

\* "RUNX"
T_RUNX ==
    <<"R", "U", "N", "X">>

\* "LISTING"
T_LISTING ==
    <<"L", "I", "S", "T", "I", "N", "G">>

\* "70000"
T_70000 ==
    <<"7", "0", "0", "0", "0">>

\* "IF 2 < 1 THEN X = 9 )"
T_IF_FALSE ==
    <<"I", "F", " ", "2", " ", "<", " ", "1", " ", "T", "H", "E", "N", " ",
      "X", " ", "=", " ", "9", " ", ")">>

\* "10 IF 2 < 1 THEN X = 9 )"
T_10_IF_FALSE ==
    <<"1", "0", " ", "I", "F", " ", "2", " ", "<", " ", "1", " ", "T", "H",
      "E", "N", " ", "X", " ", "=", " ", "9", " ", ")">>

\* "GOTO 70000"
T_GOTO_BIG ==
    <<"G", "O", "T", "O", " ", "7", "0", "0", "0", "0">>

\* "GOSUB 70000"
T_GOSUB_BIG ==
    <<"G", "O", "S", "U", "B", " ", "7", "0", "0", "0", "0">>

\* "IF 1 < 2 THEN 70000"
T_IF_BIG ==
    <<"I", "F", " ", "1", " ", "<", " ", "2", " ", "T", "H", "E", "N", " ",
      "7", "0", "0", "0", "0">>

\* "60 GOSUB 50"
T_60_GOSUB_50 ==
    <<"6", "0", " ", "G", "O", "S", "U", "B", " ", "5", "0">>

\* "30 RETURN"
T_30_RETURN ==
    <<"3", "0", " ", "R", "E", "T", "U", "R", "N">>

\* "RETURN"
T_RETURN ==
    <<"R", "E", "T", "U", "R", "N">>

\* "I = sqrt(-1)"
T_I_SQRT ==
    <<"I", " ", "=", " ", "s", "q", "r", "t", "(", "-", "1", ")">>

\* "PRINT"
T_PRINT ==
    <<"P", "R", "I", "N", "T">>

\* "print  "
T_PRINT_BLANK ==
    <<"p", "r", "i", "n", "t", " ", " ">>

\* "PRINT 1 + 1, 2 * 3, 7"
T_PRINT_3 ==
    <<"P", "R", "I", "N", "T", " ", "1", " ", "+", " ", "1", ",", " ", "2",
      " ", "*", " ", "3", ",", " ", "7">>

\* "PRINT 1, 2, 1/0, 4"
T_PRINT_DIV ==
    <<"P", "R", "I", "N", "T", " ", "1", ",", " ", "2", ",", " ", "1", "/",
      "0", ",", " ", "4">>

\* "PRINT 1,"
T_PRINT_COMMA ==
    <<"P", "R", "I", "N", "T", " ", "1", ",">>

\* "10 FOR I = 1 TO 3 STEP 0"
T_FOR_1_3_S0 ==
    <<"1", "0", " ", "F", "O", "R", " ", "I", " ", "=", " ", "1", " ", "T",
      "O", " ", "3", " ", "S", "T", "E", "P", " ", "0">>

\* "10 FOR I = 3 TO 1 STEP 0"
T_FOR_3_1_S0 ==
    <<"1", "0", " ", "F", "O", "R", " ", "I", " ", "=", " ", "3", " ", "T",
      "O", " ", "1", " ", "S", "T", "E", "P", " ", "0">>

\* "20 GOTO 10"
T_20_GOTO_10 ==
    <<"2", "0", " ", "G", "O", "T", "O", " ", "1", "0">>

\* "20 FOR I = 1 TO 2"
T_20_FOR_I ==
    <<"2", "0", " ", "F", "O", "R", " ", "I", " ", "=", " ", "1", " ", "T",
      "O", " ", "2">>

\* "10 END"
T_10_END ==
    <<"1", "0", " ", "E", "N", "D">>

\* "20 X = I"
T_20_X_I ==
    <<"2", "0", " ", "X", " ", "=", " ", "I">>

\* "10 FOR I = 1E999 TO 1E999"
T_FOR_INF ==
    <<"1", "0", " ", "F", "O", "R", " ", "I", " ", "=", " ", "1", "E", "9",
      "9", "9", " ", "T", "O", " ", "1", "E", "9", "9", "9">>

\* storing, replacing and deleting lines, the commands in several
\* spellings, words that begin like a command, a number above 65535, an
\* assignment
StoreInputs ==
    {T_RUN, T_LIST, T_NEW, T_10_X1, T_10_X2, T_10, T_20_PRINT_X, T_20, T_30_END,
     T_30, T_X5, T_RUN_MIXED, T_LIST_ARG, T_NEW_ASSIGN, T_RUNX, T_LISTING,
     T_70000}

Next ==
    \/ \E text \in StoreInputs : submit_line(text)
    \/ RunBegin
    \/ RunLine
    \/ RunJump

Spec == Init /\ [][Next]_vars

\* programs of jumps, forward and backward, to stored and to missing lines,
\* a NEXT and a RETURN that nothing opened, stored and typed, and a variable
RunInputs ==
    {T_RUN, T_10_GOSUB_30, T_10_GOTO_30, T_10_IF_30, T_20_PRINT_2, T_30_END,
     T_30_GOTO_20, T_30, T_30_NEXT_I, T_30_RETURN, T_NEXT_I, T_RETURN, T_X5}

NextRun ==
    \/ \E text \in RunInputs : submit_line(text)
    \/ RunBegin
    \/ RunLine
    \/ RunJump

SpecRun == Init /\ [][NextRun]_vars

\* the immediate statements that leave frames and a pending target behind,
\* between numbered lines and runs
ImmediateInputs ==
    {T_RUN, T_FOR_I, T_GOSUB_20, T_GOTO_20, T_IF_20, T_10_GOSUB_30,
     T_10_BLANK, T_30_END, T_IF_FALSE, T_10_IF_FALSE, T_GOTO_BIG,
     T_GOSUB_BIG, T_IF_BIG}

NextImmediate ==
    \/ \E text \in ImmediateInputs : submit_line(text)
    \/ RunBegin
    \/ RunLine
    \/ RunJump

SpecImmediate == Init /\ [][NextImmediate]_vars

\* the FOR/NEXT programs, with steps above, below and at zero, and a GOTO
\* from the body back to the FOR
ForInputs ==
    {T_RUN, T_FOR_1_3, T_FOR_5_1, T_FOR_1_5_2, T_FOR_3_1_M1, T_FOR_1_3_M1,
     T_FOR_1_3_S0, T_FOR_3_1_S0, T_20_PRINT_I, T_20_GOTO_10, T_30_NEXT_I,
     T_40_END}

NextFor ==
    \/ \E text \in ForInputs : submit_line(text)
    \/ RunBegin
    \/ RunLine
    \/ RunJump

SpecFor == Init /\ [][NextFor]_vars

\* statements typed at the prompt: nested FOR frames and NEXT, assignments
\* to X and to the loop variable I, and expressions
NestInputs ==
    {T_FOR_I, T_FOR_J, T_NEXT_I, T_NEXT_J, T_X5, T_EXPR, T_EXPR_PAREN, T_X,
     T_X7_JUNK, T_X_SQRT, T_I_SQRT}

NextNest == \E text \in NestInputs : submit_line(text)

SpecNest == Init /\ [][NextNest]_vars

\* the lines of a program with two nested GOSUBs, a GOSUB on the last line,
\* and a FOR/NEXT loop where the outer subroutine returns to
GosubInputs ==
    {T_RUN, T_10_GOSUB_40, T_20_PRINT_2, T_20_FOR_I, T_30_END, T_30_NEXT_I,
     T_40_GOSUB_60, T_50_RETURN, T_60_RETURN, T_60_GOSUB_50}

NextGosub ==
    \/ \E text \in GosubInputs : submit_line(text)
    \/ RunBegin
    \/ RunLine
    \/ RunJump

SpecGosub == Init /\ [][NextGosub]_vars

\* "max"
N_MAX ==
    <<"m", "a", "x">>

\* "pow"
N_POW ==
    <<"p", "o", "w">>

\* the arguments written in the calls, in their order
Arguments == <<2, 3, 4, 5, 6, 7, 8, 9, 1>>

\* "2,3,...": the first k arguments, separated by commas
RECURSIVE ArgumentList(_)
ArgumentList(k) ==
    IF k = 0 THEN <<>>
    ELSE IF k = 1 THEN <<ToString(Arguments[1])>>
    ELSE ArgumentList(k - 1) \o <<",", ToString(Arguments[k])>>

\* "name(2,3,...)": the call of name with the first k arguments
CallText(name, k) == name \o <<"(">> \o ArgumentList(k) \o <<")">>

\* the calls typed at the prompt: the variadic max with 0 to 9 arguments,
\* abs (one argument), pow (two) and SQUARE with too few, the right number,
\* too many, and 9
Calls ==
    {[name |-> N_MAX, k |-> k] : k \in 0..9}
        \cup {[name |-> N_ABS, k |-> k] : k \in {0, 1, 2, 9}}
        \cup {[name |-> N_POW, k |-> k] : k \in {1, 2, 3, 9}}
        \cup {[name |-> N_SQUARE, k |-> k] : k \in {0, 1, 2, 9}}

\* registrations between lines typed at the prompt: NEW, a stored line, a
\* FOR and a GOSUB, calls of the registered names
RegistryInputs ==
    {T_NEW, T_10_X1, T_FOR_I, T_GOSUB_20, T_SQUARE_3, T_ABS_M3}

\* the registrations the caller makes
Registrations ==
    {[name |-> N_SQUARE, arg_count |-> 1, func_ptr |-> "my_square"],
     [name |-> N_SQUARE, arg_count |-> 2, func_ptr |-> "my_square"],
     [name |-> N_ABS, arg_count |-> 1, func_ptr |-> "my_square"]}

NextRegistry ==
    \/ \E text \in RegistryInputs : submit_line(text)
    \/ \E f \in Registrations :
            register_function(f.name, f.arg_count, f.func_ptr)
    \/ init_again

SpecRegistry == Init /\ [][NextRegistry]_vars

\* programs that stop at an error or at END, and a division by zero typed
\* at the prompt
AbortInputs ==
    {T_RUN, T_10_X1, T_10_FOR_X, T_10_GOSUB_20, T_20_PRINT_X, T_30_X_DIV,
     T_30_END, T_30_IF_END, T_40_PRINT_4, T_X_DIV}

NextAbort ==
    \/ \E text \in AbortInputs : submit_line(text)
    \/ RunBegin
    \/ RunLine
    \/ RunJump

SpecAbort == Init /\ [][NextAbort]_vars

\* the PRINT statements typed at the prompt: nothing after the keyword,
\* three expressions, a division by zero in the third of four, and a comma
\* that nothing follows
PrintTexts == {T_PRINT, T_PRINT_BLANK, T_PRINT_3, T_PRINT_DIV, T_PRINT_COMMA}

\* calls of built-in and registered functions typed at the prompt, with
\* every argument count, and PRINT statements, between registrations
CallInputs == {CallText(c.name, c.k) : c \in Calls} \cup PrintTexts

NextCalls ==
    \/ \E text \in CallInputs : submit_line(text)
    \/ \E f \in Registrations :
            register_function(f.name, f.arg_count, f.func_ptr)

SpecCalls == Init /\ [][NextCalls]_vars

\* FOR lines with a positive, a negative and a zero step and with an
\* infinite start, or an END, a use of the loop variable and the NEXT,
\* between RUNs
LoopInputs ==
    {T_RUN, T_FOR_1_3, T_FOR_3_1_M1, T_FOR_1_3_S0, T_FOR_3_1_S0, T_FOR_INF,
     T_10_END, T_20_X_I, T_30_NEXT_I}

NextLoop ==
    \/ \E text \in LoopInputs : submit_line(text)
    \/ RunBegin
    \/ RunLine
    \/ RunJump

\* run_program is one loop of sequential code: once RUN is typed, each of
\* its steps is taken
SpecLoop ==
    /\ Init
    /\ [][NextLoop]_vars
    /\ WF_vars(RunBegin)
    /\ WF_vars(RunLine)
    /\ WF_vars(RunJump)

(***************************************************************************)
(* Properties of the Program Store, under Spec                             *)
(***************************************************************************)
\* g2basic_parse(text, ...) has returned
Returned(text) == pc = "idle" /\ input = text

\* the line numbers a list holds
LineNumbers(prog) == {prog[i].line_number : i \in DOMAIN prog}

\* the texts a list holds under the line number n
TextsOf(prog, n) ==
    {prog[i].text : i \in {j \in DOMAIN prog : prog[j].line_number = n}}

\* "X = 1"
S_X1 == <<"X", " ", "=", " ", "1">>

\* "X = 2"
S_X2 == <<"X", " ", "=", " ", "2">>

\* "PRINT X"
S_PRINT_X == <<"P", "R", "I", "N", "T", " ", "X">>

\* "END"
S_END == <<"E", "N", "D">>

\* the inputs of Spec that store a line: its number and the text it holds
StoreCases ==
    {[text |-> T_10_X1, n |-> 10, stored |-> S_X1],
     [text |-> T_10_X2, n |-> 10, stored |-> S_X2],
     [text |-> T_20_PRINT_X, n |-> 20, stored |-> S_PRINT_X],
     [text |-> T_30_END, n |-> 30, stored |-> S_END]}

\* the inputs of Spec that are a bare line number
DeleteCases ==
    {[text |-> T_10, n |-> 10], [text |-> T_20, n |-> 20],
     [text |-> T_30, n |-> 30]}

\* C1: whatever calls were made, the Program Store lists its lines in
\* strictly ascending line-number order, so no line number appears twice.
C1_StoreAscending ==
    \A i \in 1..(Len(program_head) - 1) :
        program_head[i].line_number < program_head[i + 1].line_number

\* a line has been stored between two stored lines
C1_Witness ==
    /\ Returned(T_20_PRINT_X)
    /\ LineNumbers(entry.program_head) = {10, 30}
    /\ Len(program_head) = 3

\* C2: storing a line whose number is already stored replaces that line's
\* text: the store holds the same line numbers as before, once each, the
\* line holds the new text, and every other line holds the text it held.
C2_StoreReplaces ==
    \A c \in StoreCases :
        Returned(c.text) /\ c.n \in LineNumbers(entry.program_head) =>
            /\ ret = 2
            /\ LineNumbers(program_head) = LineNumbers(entry.program_head)
            /\ Len(program_head) = Len(entry.program_head)
            /\ TextsOf(program_head, c.n) = {c.stored}
            /\ \A m \in LineNumbers(program_head) \ {c.n} :
                    TextsOf(program_head, m) = TextsOf(entry.program_head, m)

\* line 10 held "X = 1" among three lines and now holds "X = 2"
C2_Witness ==
    /\ Returned(T_10_X2)
    /\ Len(entry.program_head) = 3
    /\ TextsOf(entry.program_head, 10) = {S_X1}
    /\ TextsOf(program_head, 10) = {S_X2}

\* C4: a bare line number n removes exactly the line numbered n and leaves
\* every other line as it was; when no line n is stored the Program Store
\* is unchanged and the call still returns 1 (Deleted) with n, no error.
C4_DeleteExactly ==
    \A c \in DeleteCases :
        Returned(c.text) =>
            /\ ret = 1
            /\ result = Num(c.n)
            /\ error = NoErr
            /\ program_head =
                    SelectSeq(entry.program_head, LAMBDA l : l.line_number # c.n)
            /\ c.n \notin LineNumbers(entry.program_head) =>
                    program_head = entry.program_head

\* the middle one of three lines has been deleted
C4_Witness ==
    /\ Returned(T_20)
    /\ LineNumbers(entry.program_head) = {10, 20, 30}
    /\ LineNumbers(program_head) = {10, 30}

(***************************************************************************)
(* Properties of the intake and of RUN's reset, under SpecImmediate        *)
(***************************************************************************)
\* the inputs of SpecImmediate that start with a line number: the number,
\* and the return code, 1 when only whitespace follows it and 2 otherwise
NumberedCases ==
    {[text |-> T_10_GOSUB_30, n |-> 10, ret |-> 2],
     [text |-> T_30_END, n |-> 30, ret |-> 2],
     [text |-> T_10_BLANK, n |-> 10, ret |-> 1]}

C5_RunBeginsReset ==
    pc = "run" =>
        /\ goto_target = NO_JUMP
        /\ for_stack_head = <<>>
        /\ gosub_stack_head = <<>>
        /\ variables_head = entry.variables_head
        /\ program_head = entry.program_head

\* RUN has begun after an earlier RUN and immediate statements left a
\* variable, frames on both stacks and a pending target
C5_Witness ==
    /\ pc = "run"
    /\ entry.current_line_index # -1
    /\ entry.variables_head # <<>>
    /\ entry.program_head # <<>>
    /\ entry.for_stack_head # <<>>
    /\ entry.gosub_stack_head # <<>>
    /\ entry.goto_target # NO_JUMP

(***************************************************************************)
(* Properties of RUN's jump resolution, under SpecRun                      *)
(***************************************************************************)
\* the stored line numbers above the line the cursor is at
Higher == {n \in LineNumbers(program_head) :
                n > program_head[current_line].line_number}

\* the line the cursor is at has executed without error
LineExecuted == pc = "jump"

\* C6: during RUN, after a line has executed without error: with no
\* pending-jump target, the next line executed is the stored line with the
\* next higher number, and the run ends cleanly (RUN returns 3, nothing is
\* printed) when there is none; with a pending target T that is a stored
\* line number, the next line executed is line T and the target is cleared
\* before it runs.
C6_NextLine ==
    [][LineExecuted =>
        /\ goto_target = NO_JUMP /\ Higher = {} =>
                pc' = "idle" /\ ret' = 3 /\ out' = out
        /\ goto_target = NO_JUMP /\ Higher # {} =>
                /\ pc' = "line"
                /\ program_head'[current_line'].line_number \in Higher
                /\ \A n \in Higher : program_head'[current_line'].line_number <= n
        /\ goto_target \in LineNumbers(program_head) =>
                /\ pc' = "line"
                /\ program_head'[current_line'].line_number = goto_target
                /\ goto_target' = NO_JUMP]_vars

\* line 10 was the last to execute, line 20 is stored, and the cursor is
\* at line 30 with no target pending: the jump over line 20 has been made
C6_Witness ==
    /\ pc = "line"
    /\ current_line_index = 10
    /\ program_head[current_line].line_number = 30
    /\ 20 \in LineNumbers(program_head)
    /\ goto_target = NO_JUMP

\* C10: during RUN, when the line executed leaves a pending-jump target
\* that is a line number no stored line has, RUN prints
\* "Error: line <target> not found" through the sink and returns: no
\* further line is executed.
C10_LineNotFound ==
    [][(/\ LineExecuted
        /\ goto_target \notin {NO_JUMP, END_OF_PROGRAM}
        /\ goto_target \notin LineNumbers(program_head)) =>
            /\ pc' = "idle"
            /\ out' = Append(out, "Error: line " \o ToString(goto_target)
                                    \o " not found\n")
            /\ program_head' = program_head]_vars

\* RUN has returned after reporting that line 30, the pending target, is
\* not stored
C10_Witness ==
    /\ Returned(T_RUN)
    /\ 30 \notin LineNumbers(program_head)
    /\ goto_target = 30
    /\ Len(out) >= 1
    /\ out[Len(out)] = "Error: line 30 not found\n"

(***************************************************************************)
(* Properties of FOR/NEXT, under SpecFor                                   *)
(***************************************************************************)
\* "PRINT I"
S_PRINT_I == <<"P", "R", "I", "N", "T", " ", "I">>

\* "NEXT I"
S_NEXT_I == <<"N", "E", "X", "T", " ", "I">>

\* the FOR lines of SpecFor: the start value, the bound and the step
ForLoops ==
    {[text |-> T_FOR_1_3, start |-> 1, bound |-> 3, step |-> 1],
     [text |-> T_FOR_5_1, start |-> 5, bound |-> 1, step |-> 1],
     [text |-> T_FOR_1_5_2, start |-> 1, bound |-> 5, step |-> 2],
     [text |-> T_FOR_3_1_M1, start |-> 3, bound |-> 1, step |-> -1],
     [text |-> T_FOR_1_3_M1, start |-> 1, bound |-> 3, step |-> -1]}

\* the program 10 FOR ... / 20 PRINT I / 30 NEXT I / 40 END
ForProgram(c) ==
    <<[line_number |-> 10, text |-> SubSeq(c.text, 4, Len(c.text))],
      [line_number |-> 20, text |-> S_PRINT_I],
      [line_number |-> 30, text |-> S_NEXT_I],
      [line_number |-> 40, text |-> S_END]>>

\* RUN of that program has returned
RanFor(c) == Returned(T_RUN) /\ program_head = ForProgram(c)

\* the values v, v + step, ... within the bound, in that order
RECURSIVE Within(_, _, _)
Within(v, bound, step) ==
    IF (step > 0 /\ v > bound) \/ (step < 0 /\ v < bound) THEN <<>>
    ELSE <<v>> \o Within(v + step, bound, step)

\* what the sink receives when PRINT prints each value on its own line
RECURSIVE Printed(_)
Printed(values) ==
    IF values = <<>> THEN <<>>
    ELSE <<ToString(Head(values)), "\n">> \o Printed(Tail(values))

\* C7 as stated: with a positive step the body runs once for each value
\* start, start+step, ... that is <= end, in that order, and for no other.
C7_AsStated ==
    \A c \in ForLoops :
        c.step > 0 /\ RanFor(c) =>
            out = Printed(Within(c.start, c.bound, c.step))

\* C7: with a positive step the body runs once for start, whatever the
\* bound, and then once for each further value start+step, start+2*step,
\* ... that is <= end, in that order, the bound included; FOR I = 1 TO 3
\* prints 1, 2, 3, each on its own line, and nothing else.
C7_PositiveStep ==
    /\ \A c \in ForLoops :
            c.step > 0 /\ RanFor(c) =>
                out = Printed(<<c.start>>
                                \o Within(c.start + c.step, c.bound, c.step))
    /\ \A c \in ForLoops :
            c.text = T_FOR_1_3 /\ RanFor(c) =>
                out = <<"1", "\n", "2", "\n", "3", "\n">>

\* the program with FOR I = 1 TO 3 has run and printed its three lines
C7_Witness ==
    /\ \E c \in ForLoops : c.text = T_FOR_1_3 /\ RanFor(c)
    /\ Len(out) = 6

\* C8 as stated: after the program with FOR I = 1 TO 3 has run, I equals 4,
\* the first value past the bound.
C8_AsStated ==
    \A c \in ForLoops :
        c.text = T_FOR_1_3 /\ RanFor(c) =>
            get_variable(variables_head, "I") = Num(4)

\* C9 as stated: with a negative step the body runs once for each value
\* start, start+step, ... that is >= end, in that order, and for no other,
\* and the loop's frame is popped.
C9_AsStated ==
    \A c \in ForLoops :
        c.step < 0 /\ RanFor(c) =>
            /\ out = Printed(Within(c.start, c.bound, c.step))
            /\ for_stack_head = <<>>

\* C9: with a negative step the body runs once for start, whatever the
\* bound, and then once for each further value start+step, start+2*step,
\* ... that is >= end, in that order, and then the loop stops with its
\* frame popped; FOR I = 3 TO 1 STEP -1 iterates 3, 2, 1.
C9_NegativeStep ==
    /\ \A c \in ForLoops :
            c.step < 0 /\ RanFor(c) =>
                /\ out = Printed(<<c.start>>
                                    \o Within(c.start + c.step, c.bound, c.step))
                /\ for_stack_head = <<>>
    /\ \A c \in ForLoops :
            c.text = T_FOR_3_1_M1 /\ RanFor(c) =>
                out = <<"3", "\n", "2", "\n", "1", "\n">>

\* the program with FOR I = 3 TO 1 STEP -1 has run and printed three lines
C9_Witness ==
    /\ \E c \in ForLoops : c.text = T_FOR_3_1_M1 /\ RanFor(c)
    /\ Len(out) = 6
    /\ for_stack_head = <<>>

(***************************************************************************)
(* Properties of NEXT against the FOR stack, under SpecNest                *)
(***************************************************************************)
\* the NEXT statements typed and the variable each names
NextCases ==
    {[text |-> T_NEXT_I, var |-> "I"], [text |-> T_NEXT_J, var |-> "J"]}

\* C11: NEXT V with a non-empty FOR stack whose top frame is for another
\* variable fails with "NEXT variable doesn't match FOR variable" and leaves
\* the FOR stack (depth and every frame), the variables and the pending
\* jump target as they were, also when a deeper frame is for V.
C11_NextMismatch ==
    \A c \in NextCases :
        /\ Returned(c.text)
        /\ entry.for_stack_head # <<>>
        /\ Head(entry.for_stack_head).var_name # c.var
        => /\ ret # 0
           /\ error = "NEXT variable doesn't match FOR variable"
           /\ for_stack_head = entry.for_stack_head
           /\ variables_head = entry.variables_head
           /\ goto_target = entry.goto_target

\* NEXT I has returned where the top frame was for J above a frame for I,
\* with a jump pending
C11_Witness ==
    /\ Returned(T_NEXT_I)
    /\ Len(entry.for_stack_head) = 2
    /\ entry.for_stack_head[1].var_name = "J"
    /\ entry.for_stack_head[2].var_name = "I"
    /\ entry.goto_target # NO_JUMP
    /\ error = "NEXT variable doesn't match FOR variable"

(***************************************************************************)
(* Properties of GOSUB and RETURN, under SpecGosub                         *)
(***************************************************************************)
\* "GOSUB 40"
S_GOSUB_40 == <<"G", "O", "S", "U", "B", " ", "4", "0">>

\* "GOSUB 60"
S_GOSUB_60 == <<"G", "O", "S", "U", "B", " ", "6", "0">>

\* "RETURN"
S_RETURN == <<"R", "E", "T", "U", "R", "N">>

\* the GOSUB lines of SpecGosub and the line each calls
GosubLines ==
    {[text |-> S_GOSUB_40, target |-> 40], [text |-> S_GOSUB_60, target |-> 60]}

\* the cursor is at a stored line with this text
CursorAt(text) ==
    /\ pc \in {"line", "jump"}
    /\ program_head[current_line].text = text

\* the number of the stored line that follows the cursor's line, or
\* END_OF_PROGRAM when it is the last
Successor ==
    IF Higher = {} THEN END_OF_PROGRAM
    ELSE CHOOSE n \in Higher : \A m \in Higher : n <= m

\* "PRINT 2"
S_PRINT_2 == <<"P", "R", "I", "N", "T", " ", "2">>

\* the whole program is stored: 10 GOSUB 40, 20 PRINT 2, 30 END,
\* 40 GOSUB 60, 50 RETURN, 60 RETURN
NestedGosubs ==
    /\ LineNumbers(program_head) = {10, 20, 30, 40, 50, 60}
    /\ TextsOf(program_head, 10) = {S_GOSUB_40}
    /\ TextsOf(program_head, 20) = {S_PRINT_2}
    /\ TextsOf(program_head, 30) = {S_END}
    /\ TextsOf(program_head, 40) = {S_GOSUB_60}
    /\ TextsOf(program_head, 50) = {S_RETURN}
    /\ TextsOf(program_head, 60) = {S_RETURN}

\* C12: within a RUN, a GOSUB pushes a frame that holds the number of the
\* stored line following its own; a RETURN pops the top frame, the one of
\* the most recent GOSUB not yet returned from, and the next line executed
\* is the line that frame holds; with two nested GOSUBs (10 calls 40, 40
\* calls 60) the RETURN at 60 resumes at 50 with the outer frame left, and
\* the RETURN at 50 then resumes at 20 with the stack empty.
C12_GosubReturnLifo ==
    [][/\ \A c \in GosubLines :
            pc = "line" /\ CursorAt(c.text) =>
                /\ pc' = "jump"
                /\ gosub_stack_head' =
                        <<[return_line_number |-> Successor]>> \o gosub_stack_head
                /\ goto_target' = c.target
       /\ pc = "line" /\ CursorAt(S_RETURN) /\ gosub_stack_head # <<>> =>
                /\ pc' = "jump"
                /\ gosub_stack_head' = Tail(gosub_stack_head)
                /\ goto_target' = Head(gosub_stack_head).return_line_number
       /\ pc = "jump" /\ CursorAt(S_RETURN)
                     /\ goto_target \in LineNumbers(program_head) =>
                /\ pc' = "line"
                /\ program_head'[current_line'].line_number = goto_target
       /\ NestedGosubs /\ pc = "jump" /\ current_line_index = 60 =>
                /\ gosub_stack_head = <<[return_line_number |-> 20]>>
                /\ goto_target = 50
       /\ NestedGosubs /\ pc = "jump" /\ current_line_index = 50 =>
                /\ gosub_stack_head = <<>>
                /\ goto_target = 20]_vars

\* in the program with the two nested GOSUBs the RETURN at 50 has executed
\* after the one at 60, and the run has resumed at line 20 with the stack
\* empty
C12_Witness ==
    /\ NestedGosubs
    /\ pc = "line"
    /\ current_line_index = 50
    /\ program_head[current_line].line_number = 20
    /\ gosub_stack_head = <<>>

(***************************************************************************)
(* Properties of NEW and of the Function Registry, under SpecRegistry      *)
(***************************************************************************)
\* C13: NEW empties the Program Store and changes nothing else: the
\* variables keep their values, the Function Registry (built-in and
\* user-registered) is unchanged, and so are the FOR stack, the GOSUB stack
\* and the pending-jump target.
C13_NewClearsProgramOnly ==
    Returned(T_NEW) =>
        /\ program_head = <<>>
        /\ variables_head = entry.variables_head
        /\ functions_head = entry.functions_head
        /\ for_stack_head = entry.for_stack_head
        /\ gosub_stack_head = entry.gosub_stack_head
        /\ goto_target = entry.goto_target
        /\ current_line_index = entry.current_line_index
        /\ print_function = entry.print_function

\* NEW has returned where a line was stored, a variable set, SQUARE
\* registered, a frame on each stack and a jump pending
C13_Witness ==
    /\ Returned(T_NEW)
    /\ entry.program_head # <<>>
    /\ entry.variables_head # <<>>
    /\ find_function(entry.functions_head, "SQUARE") # 0
    /\ entry.for_stack_head # <<>>
    /\ entry.gosub_stack_head # <<>>
    /\ entry.goto_target # NO_JUMP

\* g2basic_register_function(name, ...) has returned
Registered(name) == pc = "registered" /\ input = name

\* the registry's entry for a name
FunctionNamed(funcs, name) == funcs[find_function(funcs, name)]

C20_AsStated ==
    Registered(N_ABS) =>
        FunctionNamed(functions_head, "abs").func_ptr = "my_square"

(***************************************************************************)
(* Properties of errors and of END during RUN, under SpecAbort             *)
(***************************************************************************)
\* "X = 1/(X-1)"
S_X_DIV == <<"X", " ", "=", " ", "1", "/", "(", "X", "-", "1", ")">>

\* C14: a '/' whose right operand evaluates to zero yields the error
\* "division by zero" and no value.  Typed as X = 1/0, the call returns -1
\* with that error, stores no result and leaves X as it was (its previous
\* value, or undefined).  In a RUN, line 30 X = 1/(X-1) executed with X = 1
\* prints "Error in line 30: division by zero", leaves X at 1 and ends
\* the run at that line.
C14_DivisionByZero ==
    [][/\ pc' = "idle" /\ input' = T_X_DIV =>
            /\ ret' = -1
            /\ error' = "division by zero"
            /\ result' = result
            /\ variables_head' = variables_head
       /\ pc = "line" /\ CursorAt(S_X_DIV)
                     /\ get_variable(variables_head, "X") = Num(1) =>
            /\ pc' = "idle"
            /\ out' = Append(out, "Error in line 30: division by zero\n")
            /\ variables_head' = variables_head
            /\ current_line_index' = 30]_vars

\* a RUN has ended at line 30 with the division's error as the last thing
\* printed and X still 1
C14_Witness ==
    /\ Returned(T_RUN)
    /\ current_line_index = 30
    /\ out # <<>>
    /\ out[Len(out)] = "Error in line 30: division by zero\n"
    /\ get_variable(variables_head, "X") = Num(1)

\* the errors a line of SpecAbort's programs can report
AbortMessages == {"division by zero", "undefined variable 'X'"}

\* the message RUN prints for an error in the line at the cursor
ErrorInLine(msg) ==
    "Error in line " \o ToString(program_head[current_line].line_number)
        \o ": " \o msg \o "\n"

\* the program 10 X = 1, 20 PRINT X, 30 X = 1/(X-1), 40 PRINT 4 is stored
FailingProgram ==
    /\ LineNumbers(program_head) = {10, 20, 30, 40}
    /\ TextsOf(program_head, 10) = {S_X1}
    /\ TextsOf(program_head, 30) = {S_X_DIV}

\* C17: during RUN, the first line whose evaluation reports an error ends
\* the run: "Error in line <n>: <message>" goes to the sink after what the
\* earlier lines printed, the variables the earlier lines assigned keep
\* their values, and no later line is executed; the program 10 X = 1,
\* 20 PRINT X, 30 X = 1/(X-1), 40 PRINT 4 prints 1 and the error of line 30,
\* never 4, and leaves X at 1.
C17_FirstErrorAborts ==
    [][/\ pc = "line" /\ pc' = "idle" =>
            /\ \E msg \in AbortMessages : out' = Append(out, ErrorInLine(msg))
            /\ variables_head' = variables_head
            /\ ret' = 3
       /\ pc = "line" /\ pc' = "jump" => out \in {out', SubSeq(out', 1, Len(out))}
       /\ FailingProgram /\ Returned(T_RUN)' =>
            /\ out' = <<"1", "\n", "Error in line 30: division by zero\n">>
            /\ get_variable(variables_head', "X") = Num(1)
            /\ current_line_index' = 30]_vars

\* the program 10 X = 1, 20 PRINT X, 30 X = 1/(X-1), 40 PRINT 4 has run up
\* to the error of line 30
C17_Witness ==
    /\ FailingProgram
    /\ Returned(T_RUN)
    /\ current_line_index = 30
    /\ out = <<"1", "\n", "Error in line 30: division by zero\n">>

\* "IF 1 < 2 THEN END"
S_IF_END ==
    <<"I", "F", " ", "1", " ", "<", " ", "2", " ", "T", "H", "E", "N", " ",
      "E", "N", "D">>

\* the cursor is at an END, bare or after a true IF-THEN
CursorAtEnd == CursorAt(S_END) \/ CursorAt(S_IF_END)

\* C18: when END executes during RUN, bare or as the statement of a true
\* IF-THEN, the run ends there without an error: nothing is printed, RUN
\* returns 3 and no further line is executed, whatever lines are stored
\* above it and whatever the FOR and GOSUB stacks hold; the stacks, the
\* variables and the program are left as they were.
C18_EndStopsRun ==
    [][/\ pc = "line" /\ CursorAtEnd =>
            /\ pc' = "jump"
            /\ goto_target' = END_OF_PROGRAM
            /\ out' = out
            /\ UNCHANGED <<for_stack_head, gosub_stack_head, variables_head,
                           program_head>>
       /\ pc = "jump" /\ CursorAtEnd =>
            /\ pc' = "idle"
            /\ ret' = 3
            /\ out' = out
            /\ UNCHANGED <<for_stack_head, gosub_stack_head, variables_head,
                           program_head>>]_vars

\* a RUN has ended at line 30 IF 1 < 2 THEN END with line 40 stored and the
\* frame of line 10's FOR on the stack
C18_Witness ==
    /\ Returned(T_RUN)
    /\ current_line_index = 30
    /\ TextsOf(program_head, 30) = {S_IF_END}
    /\ 40 \in LineNumbers(program_head)
    /\ for_stack_head # <<>>
    /\ goto_target = END_OF_PROGRAM
    /\ \A i \in DOMAIN out : out[i] \in {"1", "\n"}

(***************************************************************************)
(* Properties of expressions and assignments, under SpecNest               *)
(***************************************************************************)
\* what g2basic_parse(text, ...) returns with what the call stands for:
\* the code is 0, the value is v and the globals are as they were
Yields(r, v) ==
    /\ r.ret = 0
    /\ r.result = v
    /\ r.g = [Globals EXCEPT !.out = <<>>]

\* C15 as stated: 2 + 3 * 4 submitted to g2basic_parse yields 14 and
\* changes none of the interpreter's globals, and submitted again it yields
\* 14 again.
C15_AsStated ==
    Returned(T_EXPR) =>
        /\ ret = 0
        /\ result = Num(14)
        /\ [Globals EXCEPT !.out = <<>>] = [entry EXCEPT !.out = <<>>]
        /\ Yields(g2basic_parse(T_EXPR, result, NoErr,
                                [Globals EXCEPT !.out = <<>>]), Num(14))

\* "+ 3 * 4"
S_PLUS_3_4 == <<"+", " ", "3", " ", "*", " ", "4">>

\* C15: an arithmetic expression without variables that does not begin
\* with a digit is evaluated by g2basic_parse: (2 + 3 * 4) yields 14 and
\* changes none of the interpreter's globals, and submitted again from the
\* state it leaves it yields 14 again with the globals still as they were.
\* A text that begins with a digit is a numbered line: 2 + 3 * 4 stores
\* line 2 with the text + 3 * 4, returns 2 with the line number as the
\* result and evaluates nothing.
C15_ExpressionPure ==
    /\ Returned(T_EXPR_PAREN) =>
            /\ ret = 0
            /\ result = Num(14)
            /\ [Globals EXCEPT !.out = <<>>] = [entry EXCEPT !.out = <<>>]
            /\ Yields(g2basic_parse(T_EXPR_PAREN, result, NoErr,
                                    [Globals EXCEPT !.out = <<>>]), Num(14))
    /\ Returned(T_EXPR) =>
            /\ ret = 2
            /\ result = Num(2)
            /\ TextsOf(program_head, 2) = {S_PLUS_3_4}
            /\ [Globals EXCEPT !.out = <<>>] =
                    [entry EXCEPT !.out = <<>>,
                                  !.program_head = insert_program_line(@, 2, S_PLUS_3_4)]

\* (2 + 3 * 4) has returned 14 where X was set, a FOR frame was on the
\* stack and a jump was pending
C15_Witness ==
    /\ Returned(T_EXPR_PAREN)
    /\ result = Num(14)
    /\ get_variable(entry.variables_head, "X") = Num(5)
    /\ entry.for_stack_head # <<>>
    /\ entry.goto_target # NO_JUMP

\* the list holds a variable of that name
Bound(variables, name) == \E i \in DOMAIN variables : variables[i].name = name

\* the assignments to X of SpecNest whose expression evaluates
AssignmentsToX == {T_X5, T_X_SQRT}

\* C16 as stated: after an assignment to X succeeds with value v, X holds
\* v and evaluating X returns v; X keeps its value until the next
\* successful assignment to X (SpecNest has no FOR or NEXT on X); and the
\* assignment changes no other variable.
C16_AsStated ==
    [][/\ pc' = "idle" /\ input' \in AssignmentsToX /\ ret' = 0 =>
            /\ get_variable(variables_head', "X") = result'
            /\ \A name \in {"I", "J"} :
                    get_variable(variables_head', name)
                        = get_variable(variables_head, name)
       /\ pc' = "idle" /\ input' = T_X /\ Bound(variables_head, "X") =>
            /\ ret' = 0
            /\ result' = get_variable(variables_head, "X")
       /\ get_variable(variables_head', "X") # get_variable(variables_head, "X") =>
            /\ pc' = "idle"
            /\ input' \in AssignmentsToX
            /\ ret' = 0]_vars

\* C21 as stated: when an assignment submitted at the prompt returns an
\* error, here X = 7 junk with text left over after the expression, the
\* variables are exactly what they were before the call.
C21_AsStated ==
    Returned(T_X7_JUNK) /\ ret = -1 =>
        variables_head = entry.variables_head

\* the built-in names with their arities, -1 for variadic
BuiltinArities ==
    {<<"sin", 1>>, <<"cos", 1>>, <<"tan", 1>>, <<"sqrt", 1>>, <<"abs", 1>>,
     <<"pow", 2>>, <<"log", 1>>, <<"log10", 1>>, <<"exp", 1>>, <<"floor", 1>>,
     <<"ceil", 1>>, <<"min", -1>>, <<"max", -1>>}

\* C22: after g2basic_init, from any prior state, the Program Store, the
\* Variable Environment and the FOR and GOSUB stacks are empty, the
\* pending-jump target is clear, and the Function Registry holds exactly
\* the 13 built-ins with their arities (min and max variadic): functions
\* the caller registered before the init are gone.
C22_InitResets ==
    pc = "start" =>
        /\ program_head = <<>>
        /\ variables_head = <<>>
        /\ for_stack_head = <<>>
        /\ gosub_stack_head = <<>>
        /\ goto_target = NO_JUMP
        /\ current_line_index = -1
        /\ Len(functions_head) = 13
        /\ {<<functions_head[i].name, functions_head[i].arg_count>> :
                i \in DOMAIN functions_head} = BuiltinArities

\* g2basic_init has returned where a line was stored, a variable set,
\* SQUARE registered, a frame on each stack and a jump pending
C22_Witness ==
    /\ pc = "start"
    /\ entry.program_head # <<>>
    /\ entry.variables_head # <<>>
    /\ find_function(entry.functions_head, "SQUARE") # 0
    /\ entry.for_stack_head # <<>>
    /\ entry.gosub_stack_head # <<>>
    /\ entry.goto_target # NO_JUMP

(***************************************************************************)
(* Properties of the intake's dispatch, under Spec                         *)
(***************************************************************************)
\* the inputs of Spec that are a command: leading whitespace, then LIST,
\* RUN or NEW in any letter case, then whitespace or the end of the text
RunTexts == {T_RUN, T_RUN_MIXED}

ListTexts == {T_LIST, T_LIST_ARG}

NewTexts == {T_NEW, T_NEW_ASSIGN}

C24_AsStated ==
    pc = "idle" => ret \in {0, 1, 2, -1}

\* C25 as stated: an input that is not a command and begins with a decimal
\* integer above 65535, here 70000, is evaluated as an expression: the call
\* returns either 0 with the value or -1 with an error message, and the
\* Program Store is unchanged.
C25_AsStated ==
    Returned(T_70000) =>
        /\ \/ ret = 0 /\ result = Num(70000)
           \/ ret = -1 /\ error # NoErr
        /\ program_head = entry.program_head

(***************************************************************************)
(* Properties of IF and of jump targets, under SpecImmediate               *)
(***************************************************************************)
\* "IF 2 < 1 THEN X = 9 )"
S_IF_FALSE ==
    <<"I", "F", " ", "2", " ", "<", " ", "1", " ", "T", "H", "E", "N", " ",
      "X", " ", "=", " ", "9", " ", ")">>

\* C26: an IF whose comparison is false executes nothing.  Typed at the
\* prompt, IF 2 < 1 THEN X = 9 ) returns 0 without an error, whatever
\* follows THEN, and leaves the variables, both stacks, the pending-jump
\* target and the program as they were.  As line 10 of a program it leaves
\* them as they were and prints nothing, and the run goes on with the next
\* stored line, or ends when line 10 is the last.
C26_FalseIfDoesNothing ==
    [][/\ Returned(T_IF_FALSE)' =>
            /\ ret' = 0
            /\ error' = NoErr
            /\ UNCHANGED <<variables_head, for_stack_head, gosub_stack_head,
                           goto_target, program_head>>
       /\ pc = "line" /\ CursorAt(S_IF_FALSE) =>
            /\ pc' = "jump"
            /\ out' = out
            /\ UNCHANGED <<variables_head, for_stack_head, gosub_stack_head,
                           goto_target, program_head>>
       /\ pc = "jump" /\ CursorAt(S_IF_FALSE) =>
            /\ goto_target = NO_JUMP
            /\ IF Higher = {}
               THEN pc' = "idle" /\ ret' = 3 /\ out' = out
               ELSE /\ pc' = "line"
                    /\ program_head'[current_line'].line_number = Successor]_vars

\* the false IF of line 10 has executed and the run has gone on to line 30,
\* with X still undefined
C26_Witness ==
    /\ pc = "line"
    /\ current_line_index = 10
    /\ TextsOf(program_head, 10) = {S_IF_FALSE}
    /\ program_head[current_line].line_number = 30
    /\ ~Bound(variables_head, "X")

\* the statements of SpecImmediate whose target is above 65535, with the
\* error each reports
BigTargets ==
    {[text |-> T_GOTO_BIG, message |-> "invalid GOTO line number"],
     [text |-> T_GOSUB_BIG, message |-> "invalid GOSUB line number"],
     [text |-> T_IF_BIG, message |-> "invalid IF-THEN line number"]}

\* C28: GOTO, GOSUB and a true IF-THEN with a numeric target above 65535
\* each return an error and change no state: the pending-jump target keeps
\* the value it had, GOSUB pushes no frame, and the variables, the FOR
\* stack and the program are as they were.
C28_TargetOutOfRange ==
    \A c \in BigTargets :
        Returned(c.text) =>
            /\ ret = -1
            /\ error = c.message
            /\ [Globals EXCEPT !.out = <<>>] = [entry EXCEPT !.out = <<>>]

\* GOSUB 70000 has failed where a jump to line 20 was pending and a frame
\* was on the GOSUB stack
C28_Witness ==
    /\ Returned(T_GOSUB_BIG)
    /\ ret = -1
    /\ entry.goto_target = 20
    /\ entry.gosub_stack_head # <<>>
    /\ gosub_stack_head = entry.gosub_stack_head

(***************************************************************************)
(* Properties of the GOSUB frame and its sentinel, under SpecGosub         *)
(***************************************************************************)
\* "GOSUB 50"
S_GOSUB_50 == <<"G", "O", "S", "U", "B", " ", "5", "0">>

\* every GOSUB line of SpecGosub and the line it calls
GosubCalls == GosubLines \cup {[text |-> S_GOSUB_50, target |-> 50]}

\* C27: GOSUB N executed on line L during RUN pushes one frame on top of
\* the stack, holding the smallest stored line number above L, or
\* END_OF_PROGRAM when L is the last stored line, and sets the pending-jump
\* target to N.  A RETURN that pops a frame holding END_OF_PROGRAM sets the
\* target to END_OF_PROGRAM, and the run then ends: RUN returns 3, no
\* further line is executed and nothing is printed.
C27_GosubFrame ==
    [][/\ \A c \in GosubCalls :
            pc = "line" /\ CursorAt(c.text) =>
                /\ pc' = "jump"
                /\ Len(gosub_stack_head') = Len(gosub_stack_head) + 1
                /\ Tail(gosub_stack_head') = gosub_stack_head
                /\ Head(gosub_stack_head').return_line_number =
                        IF \E n \in LineNumbers(program_head) :
                                n > current_line_index'
                        THEN CHOOSE n \in LineNumbers(program_head) :
                                /\ n > current_line_index'
                                /\ \A m \in LineNumbers(program_head) :
                                        m > current_line_index' => n <= m
                        ELSE END_OF_PROGRAM
                /\ goto_target' = c.target
       /\ pc = "line" /\ CursorAt(S_RETURN)
                     /\ gosub_stack_head # <<>>
                     /\ Head(gosub_stack_head).return_line_number
                            = END_OF_PROGRAM =>
                /\ pc' = "jump"
                /\ gosub_stack_head' = Tail(gosub_stack_head)
                /\ goto_target' = END_OF_PROGRAM
                /\ out' = out
       /\ pc = "jump" /\ CursorAt(S_RETURN)
                     /\ goto_target = END_OF_PROGRAM =>
                /\ pc' = "idle"
                /\ ret' = 3
                /\ out' = out
                /\ gosub_stack_head' = gosub_stack_head]_vars

\* the GOSUB of the last line, 60, has called line 50, whose RETURN has
\* ended the run with nothing printed
C27_Witness ==
    /\ Returned(T_RUN)
    /\ LineNumbers(program_head) = {40, 50, 60}
    /\ TextsOf(program_head, 60) = {S_GOSUB_50}
    /\ current_line_index = 50
    /\ goto_target = END_OF_PROGRAM
    /\ out = <<>>

(***************************************************************************)
(* NEXT and RETURN that nothing opened, under SpecRun                      *)
(***************************************************************************)

\* the statements of SpecRun that close what nothing opened, with the error
\* each reports
Unmatched ==
    {[typed |-> T_NEXT_I, stored |-> S_NEXT_I, loop |-> TRUE,
      message |-> "NEXT without matching FOR"],
     [typed |-> T_RETURN, stored |-> S_RETURN, loop |-> FALSE,
      message |-> "RETURN without matching GOSUB"]}

\* the stack that statement u closes is empty
NothingOpen(u) ==
    IF u.loop THEN for_stack_head = <<>> ELSE gosub_stack_head = <<>>

\* C29: NEXT with an empty FOR stack reports "NEXT without matching FOR"
\* and RETURN with an empty GOSUB stack reports "RETURN without matching
\* GOSUB".  Typed at the prompt the call returns -1 with that error; as a
\* line of a program RUN prints "Error in line N: " and the message and
\* ends there, executing no further line.  In both cases the two stacks,
\* the pending-jump target, the variables and the program are as they were.
C29_Unmatched ==
    [][\A u \in Unmatched :
        /\ Returned(u.typed)' /\ NothingOpen(u) =>
                /\ ret' = -1
                /\ error' = u.message
                /\ out' = <<>>
                /\ UNCHANGED <<for_stack_head, gosub_stack_head, goto_target,
                               variables_head, program_head>>
        /\ pc = "line" /\ CursorAt(u.stored) /\ NothingOpen(u) =>
                /\ pc' = "idle"
                /\ out' = Append(out, ErrorInLine(u.message))
                /\ current_line_index' = program_head[current_line].line_number
                /\ UNCHANGED <<for_stack_head, gosub_stack_head, goto_target,
                               variables_head, program_head>>]_vars

\* with X = 5, RUN of 10 GOSUB 30, 20 PRINT 2, 30 NEXT I has ended at line
\* 30 with the error of NEXT, line 20 never printing
C29_Witness ==
    /\ Returned(T_RUN)
    /\ LineNumbers(program_head) = {10, 20, 30}
    /\ TextsOf(program_head, 30) = {S_NEXT_I}
    /\ out = <<"Error in line 30: NEXT without matching FOR\n">>
    /\ for_stack_head = <<>>
    /\ Len(gosub_stack_head) = 1
    /\ get_variable(variables_head, "X") = Num(5)

(***************************************************************************)
(* Properties of argument counts, under SpecCalls                          *)
(***************************************************************************)
\* the value of the call of name with the first k of Arguments, when the
\* registry's entry accepts it: the largest for max, the absolute value
\* for abs, 2 to the power 3 for pow, and for SQUARE the square of one
\* argument, my_square giving no value for two
ValueOf(name, k) ==
    CASE name = N_MAX -> IF k = 0 THEN NAN ELSE Num(k + 1)
      [] name = N_ABS -> Num(2)
      [] name = N_POW -> Num(8)
      [] name = N_SQUARE -> IF k = 1 THEN Num(4) ELSE NAN

\* C30: a call with more than 8 arguments is the error "too many function
\* arguments" for every function.  With at most 8, a call to a function
\* registered with arity k >= 0 that has another number of arguments is the
\* error "function 'F' expects k arguments, got n", returned with -1 and
\* with no result stored, so without a value from the callback; every
\* other call, so every call to the variadic max with 0 to 8 arguments,
\* returns 0 with the callback's value and no error.
C30_ArgumentCount ==
    [][\A c \in Calls :
        Returned(CallText(c.name, c.k))'
            /\ find_function(functions_head, CStr(c.name)) # 0 =>
        LET f == FunctionNamed(functions_head, CStr(c.name))
        IN  /\ c.k > MAX_FUNC_ARGS =>
                /\ ret' = -1
                /\ error' = "too many function arguments"
                /\ result' = result
            /\ c.k <= MAX_FUNC_ARGS /\ f.arg_count >= 0
                                    /\ c.k # f.arg_count =>
                /\ ret' = -1
                /\ error' = "function '" \o CStr(c.name) \o "' expects "
                                \o ToString(f.arg_count) \o " arguments, got "
                                \o ToString(c.k)
                /\ result' = result
            /\ c.k <= MAX_FUNC_ARGS
                    /\ (f.arg_count = -1 \/ c.k = f.arg_count) =>
                /\ ret' = 0
                /\ error' = NoErr
                /\ result' = ValueOf(c.name, c.k)]_vars

\* max(2,3,4,5,6,7,8,9), a call with 8 arguments, has returned 9
C30_Witness ==
    /\ Returned(CallText(N_MAX, MAX_FUNC_ARGS))
    /\ ret = 0
    /\ result = Num(9)
    /\ error = NoErr

(***************************************************************************)
(* Properties of variables that hold no number, under SpecNest             *)
(***************************************************************************)
\* the list holds a variable of that name whose value is NaN
BoundToNaN(variables, name) ==
    \E i \in DOMAIN variables :
        variables[i].name = name /\ variables[i].value.nan

\* C31: reading X in an expression is the error "undefined variable 'X'"
\* exactly when X was never assigned or the value stored for X is NaN, and
\* otherwise yields the value stored.  X = sqrt(-1) succeeds and stores a
\* NaN for X, after which every read of X is reported as undefined until X
\* is assigned a number; and NEXT I, with the frame of I on top of the FOR
\* stack and a NaN stored for I, fails with "FOR variable not found",
\* leaving the stack and the variables as they were.
C31_UndefinedVariable ==
    [][/\ Returned(T_X)' =>
            IF ~Bound(variables_head, "X") \/ BoundToNaN(variables_head, "X")
            THEN /\ ret' = -1
                 /\ error' = "undefined variable 'X'"
                 /\ result' = result
            ELSE /\ ret' = 0
                 /\ error' = NoErr
                 /\ result' = get_variable(variables_head, "X")
       /\ Returned(T_X_SQRT)' =>
            /\ ret' = 0
            /\ error' = NoErr
            /\ BoundToNaN(variables_head', "X")
       /\ Returned(T_NEXT_I)' /\ for_stack_head # <<>>
                              /\ Head(for_stack_head).var_name = "I"
                              /\ BoundToNaN(variables_head, "I") =>
            /\ ret' = -1
            /\ error' = "FOR variable not found"
            /\ UNCHANGED <<for_stack_head, variables_head, goto_target>>]_vars

\* NEXT I has failed on a loop variable that holds a NaN, where X holds a
\* NaN as well
C31_Witness ==
    /\ Returned(T_NEXT_I)
    /\ error = "FOR variable not found"
    /\ BoundToNaN(variables_head, "I")
    /\ BoundToNaN(variables_head, "X")
    /\ for_stack_head # <<>>

(***************************************************************************)
(* Properties of PRINT, under SpecCalls                                    *)
(***************************************************************************)
\* C32: PRINT sends the value of its first expression, then for each
\* further expression one space and its value, then one newline, and
\* returns 0: PRINT 1 + 1, 2 * 3, 7 sends "2", " ", "6", " ", "7", "\n".
\* PRINT with nothing after the keyword sends one newline and nothing
\* else.  The expressions are evaluated left to right and each value is
\* sent before the next expression is read: PRINT 1, 2, 1/0, 4 has sent
\* "1", " ", "2", " " when it returns -1 with "division by zero", and sends
\* no newline.
C32_Print ==
    /\ \A text \in {T_PRINT, T_PRINT_BLANK} :
            Returned(text) => ret = 0 /\ error = NoErr /\ out = <<"\n">>
    /\ Returned(T_PRINT_3) =>
            /\ ret = 0
            /\ error = NoErr
            /\ out = <<"2", " ", "6", " ", "7", "\n">>
    /\ Returned(T_PRINT_COMMA) =>
            ret = 0 /\ error = NoErr /\ out = <<"1", "\n">>
    /\ Returned(T_PRINT_DIV) =>
            /\ ret = -1
            /\ error = "division by zero"
            /\ out = <<"1", " ", "2", " ">>

\* PRINT 1, 2, 1/0, 4 has returned its error with two values sent
C32_Witness ==
    /\ Returned(T_PRINT_DIV)
    /\ ret = -1
    /\ Len(out) = 4

(***************************************************************************)
(* Properties of the FOR stack, under SpecFor                              *)
(***************************************************************************)
\* every FOR line of SpecFor, the two with STEP 0 included
AllForLoops ==
    ForLoops \cup
        {[text |-> T_FOR_1_3_S0, start |-> 1, bound |-> 3, step |-> 0],
         [text |-> T_FOR_3_1_S0, start |-> 3, bound |-> 1, step |-> 0]}

\* the text stored for a numbered line: what follows "10 "
StoredText(text) == SubSeq(text, 4, Len(text))

\* the smallest stored line number above n
Following(n) ==
    CHOOSE m \in LineNumbers(program_head) :
        /\ m > n
        /\ \A k \in LineNumbers(program_head) : k > n => m <= k

\* C33: a FOR line executed during RUN pushes exactly one frame on top of
\* the FOR stack, holding I, the start value, the bound, the step (1 when
\* no STEP is written) and the number of the line being executed, sets I
\* to the start value and sets no pending-jump target, whatever the stack
\* holds already.  NEXT I on a frame of I, with I + step within the bound
\* for the step's sign, leaves the stack as it is, sets I to I + step and
\* sets the pending-jump target to the stored line that follows the
\* frame's line; otherwise it pops the top frame and nothing else, and
\* leaves I and the pending-jump target as they were.
C33_ForFrame ==
    [][/\ \A c \in AllForLoops :
            pc = "line" /\ CursorAt(StoredText(c.text)) =>
                /\ pc' = "jump"
                /\ for_stack_head' =
                        <<[var_name |-> "I", start_value |-> Num(c.start),
                           end_value |-> Num(c.bound),
                           step_value |-> Num(c.step),
                           for_line_number |->
                                program_head[current_line].line_number]>>
                            \o for_stack_head
                /\ get_variable(variables_head', "I") = Num(c.start)
                /\ goto_target' = goto_target
       /\ pc = "line" /\ CursorAt(S_NEXT_I) /\ for_stack_head # <<>> =>
            LET loop == Head(for_stack_head)
                v == get_variable(variables_head, "I").n + loop.step_value.n
            IN  /\ pc' = "jump"
                /\ IF (loop.step_value.n > 0 /\ v <= loop.end_value.n)
                        \/ (loop.step_value.n <= 0 /\ v >= loop.end_value.n)
                   THEN /\ for_stack_head' = for_stack_head
                        /\ get_variable(variables_head', "I") = Num(v)
                        /\ goto_target' = Following(loop.for_line_number)
                   ELSE /\ for_stack_head' = Tail(for_stack_head)
                        /\ variables_head' = variables_head
                        /\ goto_target' = goto_target]_vars

\* the FOR of line 10 has executed a second time in one RUN, after the
\* GOTO of line 20, and has pushed a second frame on the first
C33_Witness ==
    /\ pc = "jump"
    /\ current_line_index = 10
    /\ Len(for_stack_head) = 2
    /\ for_stack_head[1] = for_stack_head[2]
    /\ for_stack_head[1].for_line_number = 10

(***************************************************************************)
(* Properties of the pending-jump target, under SpecImmediate              *)
(***************************************************************************)
\* C34: when a program line is about to execute inside RUN the
\* pending-jump target is clear, whatever was pending when RUN was typed;
\* and in every state the target is clear, END_OF_PROGRAM, or a number from
\* 0 to 65535.
C34_TargetInRange ==
    /\ pc = "line" => goto_target = NO_JUMP
    /\ goto_target \in {NO_JUMP, END_OF_PROGRAM} \cup 0..MAX_LINE_NUMBER

\* the first line of a RUN is about to execute, RUN having been typed with
\* a jump to line 20 pending from a GOTO typed at the prompt
C34_Witness ==
    /\ pc = "line"
    /\ current_line = 1
    /\ entry.goto_target = 20
    /\ goto_target = NO_JUMP

(***************************************************************************)
(* Properties of the commands' frame, under Spec                           *)
(***************************************************************************)
\* the inputs of Spec that are a RUN, a LIST or a statement typed at the
\* prompt
NotStoring == RunTexts \cup ListTexts \cup {T_X5, T_RUNX, T_LISTING}

\* C35: RUN, LIST and the statements typed at the prompt leave the Program
\* Store as it was: the call of g2basic_parse, and every line a RUN
\* executes and every jump it resolves, whether the run goes to its end or
\* stops at an error, keep the list of stored lines, numbers and texts, the
\* same.
C35_ProgramUnchanged ==
    [][\/ pc \in {"run", "line", "jump"}
       \/ pc' \in {"idle", "run"} /\ input' \in NotStoring
       => program_head' = program_head]_vars

\* a RUN of 20 PRINT X, 30 END has stopped at the error of line 20, with
\* the two lines still stored
C35_Witness ==
    /\ Returned(T_RUN)
    /\ LineNumbers(program_head) = {20, 30}
    /\ program_head = entry.program_head
    /\ out # <<>>
    /\ out[Len(out)] = "Error in line 20: undefined variable 'X'\n"

(***************************************************************************)
(* Properties of the jumps of NEXT and RETURN, under SpecGosub             *)
(***************************************************************************)
\* the message RUN prints for a target that is no stored line
LineNotFound(target) == "Error: line " \o ToString(target) \o " not found\n"

\* C36: within a RUN, a NEXT that continues its loop sets a pending-jump
\* target that is a stored line number, and a RETURN that pops a frame
\* sets one that is a stored line number or END_OF_PROGRAM; the jump after
\* either line resolves, to the line of that number or to the end of the
\* run, and prints nothing.  A run that stops with "Error: line N not
\* found" does so after a GOSUB line, here the only lines with a target of
\* their own.
C36_JumpsResolve ==
    [][/\ pc = "line" /\ CursorAt(S_NEXT_I) /\ pc' = "jump"
                     /\ for_stack_head' = for_stack_head =>
            goto_target' \in LineNumbers(program_head)
       /\ pc = "line" /\ CursorAt(S_RETURN) /\ pc' = "jump" =>
            goto_target' \in LineNumbers(program_head) \cup {END_OF_PROGRAM}
       /\ pc = "jump" /\ (CursorAt(S_NEXT_I) \/ CursorAt(S_RETURN)) =>
            /\ out' = out
            /\ goto_target \in LineNumbers(program_head) =>
                    /\ pc' = "line"
                    /\ program_head[current_line'].line_number = goto_target
       /\ pc = "jump" /\ out' # out =>
            /\ out' = Append(out, LineNotFound(goto_target))
            /\ pc' = "idle"
            /\ \E c \in GosubCalls : CursorAt(c.text) /\ c.target = goto_target]_vars

\* in the program of six lines with the loop at 20 and 30, the two
\* RETURNs have brought the run to line 20, and the NEXT of line 30 has
\* continued the loop with a jump to line 30, the line after the FOR
C36_Witness ==
    /\ pc = "line"
    /\ LineNumbers(program_head) = {10, 20, 30, 40, 50, 60}
    /\ current_line_index = 30
    /\ program_head[current_line].line_number = 30
    /\ get_variable(variables_head, "I") = Num(2)
    /\ Len(for_stack_head) = 1
    /\ gosub_stack_head = <<>>

\* the start value of c is past its bound for the sign of its step
PastBound(c) ==
    \/ c.step > 0 /\ c.start > c.bound
    \/ c.step < 0 /\ c.start < c.bound

\* C37: FOR makes no entry test.  After the FOR of line 10 has executed,
\* whatever its start, bound and step, I holds the start value, the frame
\* is on the stack, no jump is pending, and the next line to execute is
\* the stored line that follows line 10 (the run ends when there is none).
\* With the start past the bound, FOR I = 5 TO 1 or FOR I = 1 TO 3 STEP -1,
\* the program 10 FOR / 20 PRINT I / 30 NEXT I / 40 END prints the start
\* value once, and the NEXT then pops the frame and leaves I at the start
\* value.
C37_NoEntryTest ==
    [][/\ \A c \in AllForLoops :
            pc = "jump" /\ CursorAt(StoredText(c.text)) =>
                /\ get_variable(variables_head, "I") = Num(c.start)
                /\ for_stack_head # <<>>
                /\ goto_target = NO_JUMP
                /\ IF Higher = {}
                   THEN pc' = "idle"
                   ELSE /\ pc' = "line"
                        /\ program_head[current_line'].line_number = Successor
       /\ \A c \in ForLoops :
            PastBound(c) /\ pc # "idle" /\ RanFor(c)' =>
                /\ out' = <<ToString(c.start), "\n">>
                /\ for_stack_head' = <<>>
                /\ get_variable(variables_head', "I") = Num(c.start)]_vars

\* the program with FOR I = 5 TO 1 has run and has printed 5
C37_Witness ==
    /\ \E c \in ForLoops : c.text = T_FOR_5_1 /\ RanFor(c)
    /\ out = <<"5", "\n">>

(***************************************************************************)
(* Termination of RUN, under SpecLoop                                      *)
(***************************************************************************)
\* the statements that set a pending-jump target
JumpKeywords ==
    {G2BASIC_KEYWORD_GOTO, G2BASIC_KEYWORD_GOSUB, G2BASIC_KEYWORD_RETURN,
     G2BASIC_KEYWORD_NEXT, G2BASIC_KEYWORD_IF}

\* no stored line is a GOTO, GOSUB, RETURN, NEXT or IF-THEN
JumpFree ==
    \A i \in DOMAIN program_head :
        \A k \in JumpKeywords : ~is_keyword(program_head[i].text, k)

\* C38: a RUN of a program without GOTO, GOSUB, RETURN, NEXT and IF-THEN
\* executes its lines in ascending order of their numbers, each at most
\* once: a line that fails ends the run with "Error in line N: ..."; after
\* a line that succeeds the cursor moves to the stored line with the next
\* higher number, and the run ends when the line was END or the last one.
\* Every such RUN terminates.
C38_StraightLine ==
    /\ [][JumpFree =>
            /\ pc = "line" =>
                \/ pc' = "jump" /\ current_line' = current_line
                \/ /\ pc' = "idle"
                   /\ out' = Append(out,
                                ErrorInLine("undefined variable 'I'"))
            /\ pc = "jump" =>
                IF CursorAt(S_END) \/ Higher = {}
                THEN pc' = "idle" /\ out' = out
                ELSE /\ pc' = "line"
                     /\ program_head[current_line'].line_number = Successor
                     /\ Successor > program_head[current_line].line_number]_vars
    /\ (pc = "run" /\ JumpFree) ~> (pc = "idle")

\* the RUN of 10 END, 20 X = I has ended at the END of line 10: line 20,
\* which fails when it executes, has reported nothing
C38_Witness ==
    /\ Returned(T_RUN)
    /\ JumpFree
    /\ LineNumbers(program_head) = {10, 20}
    /\ TextsOf(program_head, 10) = {S_END}
    /\ current_line_index = 10
    /\ get_variable(variables_head, "I") = NAN
    /\ out = <<>>

\* "X = I"
S_X_I == StoredText(T_20_X_I)

\* the program 10 FOR ... / 20 X = I / 30 NEXT I
LoopProgram(c) ==
    <<[line_number |-> 10, text |-> StoredText(c.text)],
      [line_number |-> 20, text |-> S_X_I],
      [line_number |-> 30, text |-> S_NEXT_I]>>

\* the FOR lines of LoopInputs
Loops == {c \in AllForLoops : c.text \in LoopInputs}

\* FOR I = 1E999 TO 1E999: both numbers are above the doubles, and strtod
\* gives HUGE_VAL for them
InfiniteLoop == [text |-> T_FOR_INF, step |-> 1]

\* the loops that NEXT's test leaves: a step that is not zero, or a zero
\* step with the start below the bound
Leaving == {c \in Loops : c.step # 0 \/ c.start < c.bound}

\* a RUN of the loop c is under way
Running(c) ==
    /\ pc \in {"run", "line", "jump"}
    /\ program_head = LoopProgram(c)

\* C39 as stated: the RUN of a FOR/NEXT loop whose body neither jumps nor
\* assigns the loop variable ends whenever the step is not zero.
C39_AsStated ==
    (/\ pc = "run"
     /\ \E c \in Loops \cup {InfiniteLoop} :
            c.step # 0 /\ program_head = LoopProgram(c))
        ~> (pc = "idle")

\* C39: the RUN of a FOR/NEXT loop whose body neither jumps nor assigns the
\* loop variable ends, with the frame popped, when the step is not zero and
\* adding it changes the variable.  It does not when the variable is
\* infinite: in FOR I = 1E999 TO 1E999 every NEXT finds I at the bound,
\* keeps the frame and sets the line after the FOR as the target, and no
\* step of the run ends it.  With STEP 0, NEXT adds nothing to I and tests
\* I >= end: when start < end the first NEXT pops the frame and the run
\* ends after that one pass; when start >= end every NEXT keeps the frame
\* and sets the line after the FOR as the target, and no step of the run
\* ends it.
C39_LoopEnds ==
    /\ (pc = "run" /\ \E c \in Leaving : program_head = LoopProgram(c))
            ~> (Returned(T_RUN) /\ for_stack_head = <<>>)
    /\ [][\A c \in Loops :
            Running(c) /\ c.step = 0 =>
                IF c.start < c.bound
                THEN pc = "line" /\ CursorAt(S_NEXT_I) =>
                        /\ pc' = "jump"
                        /\ for_stack_head' = <<>>
                        /\ goto_target' = NO_JUMP
                        /\ get_variable(variables_head', "X") = Num(c.start)
                ELSE /\ pc' # "idle"
                     /\ pc = "line" /\ CursorAt(S_NEXT_I) =>
                            /\ for_stack_head' = for_stack_head
                            /\ goto_target' = 20
                            /\ get_variable(variables_head', "I")
                                    = Num(c.start)]_vars
    /\ [][Running(InfiniteLoop) =>
            /\ pc' # "idle"
            /\ pc = "line" /\ CursorAt(S_NEXT_I) =>
                    /\ for_stack_head' = for_stack_head
                    /\ goto_target' = 20
                    /\ get_variable(variables_head', "I") = INF(1)]_vars

\* FOR I = 1E999 TO 1E999: the body has run, the NEXT has kept the frame and
\* set line 20 as the target, and the run goes on
C39_Witness ==
    /\ Running(InfiniteLoop)
    /\ pc = "jump"
    /\ CursorAt(S_NEXT_I)
    /\ get_variable(variables_head, "X") = INF(1)
    /\ Head(for_stack_head).step_value = Num(1)
    /\ goto_target = 20

(***************************************************************************)
(* Properties of the FOR stack's depth, under SpecFor                      *)
(***************************************************************************)
\* the cursor's line starts with the keyword k
LineIs(k) ==
    /\ pc \in {"line", "jump"}
    /\ is_keyword(program_head[current_line].text, k)

\* "GOTO 10"
S_GOTO_10 == StoredText(T_20_GOTO_10)

\* C40: within a RUN the depth of the FOR stack is the number of FOR
\* statements executed less the number of NEXT statements that ended their
\* loop.  RUN starts with an empty stack; each FOR that executes puts one
\* frame on top of the frames that are there, also when the variable has a
\* frame already; a NEXT either keeps the stack, when the loop continues, or
\* removes the top frame, when the loop ends; every other statement, GOTO
\* included, a failing statement and the move of the cursor leave the stack
\* as it is.
C40_Depth ==
    [][/\ pc = "run" => for_stack_head' = <<>>
       /\ pc = "jump" => for_stack_head' = for_stack_head
       /\ pc = "line" /\ pc' = "idle" => for_stack_head' = for_stack_head
       /\ pc = "line" /\ pc' = "jump" =>
            IF LineIs(G2BASIC_KEYWORD_FOR)
            THEN /\ Len(for_stack_head') = Len(for_stack_head) + 1
                 /\ Tail(for_stack_head') = for_stack_head
            ELSE IF LineIs(G2BASIC_KEYWORD_NEXT)
            THEN IF goto_target' # NO_JUMP
                 THEN for_stack_head' = for_stack_head
                 ELSE for_stack_head' = Tail(for_stack_head)
            ELSE for_stack_head' = for_stack_head]_vars

\* the GOTO of line 20 has executed with two frames of I on the stack, on
\* its way back to the FOR of line 10
C40_Witness ==
    /\ pc = "jump"
    /\ CursorAt(S_GOTO_10)
    /\ goto_target = 10
    /\ Len(for_stack_head) = 2
    /\ \A i \in 1..2 : for_stack_head[i].var_name = "I"

====
